---- MODULE Spec2Model ----
(***************************************************************************)
(* Distressed Property Finder: the opportunity-detection pipeline          *)
(* (normalizer, relisting detector, microzone calculator, opportunity      *)
(* scorer) and its orchestration in main.py.                               *)
(*                                                                         *)
(* Representation.                                                         *)
(*   - A Python dict is a function from field names to values; a key that  *)
(*     is absent is outside its DOMAIN.                                    *)
(*   - A value carries its Python type as the name of its single field:    *)
(*     None, [num |-> q], [str |-> s], [bool |-> b], [list |-> seq],       *)
(*     [root |-> z].  Values of different types are different.             *)
(*   - A number is an exact rational [n |-> Int, d |-> Nat \ {0}] in       *)
(*     lowest terms (the code's floats without rounding error).            *)
(*   - A z-score is sgn * sqrt(sq) with sq rational (value kind root), so  *)
(*     that the square root of the variance stays exact.                   *)
(*   - A Python str is a tuple of one-character strings.                   *)
(*   - Coordinates are metres of arc (degrees * pi * R / 180), so that the *)
(*     haversine distance of two nearby points is their planar distance.   *)
(***************************************************************************)
EXTENDS Integers, Sequences, FiniteSets, TLC

VARIABLES
    spreadsheet,     \* the worksheets of the Google spreadsheet, by title
    pc,              \* position of the run of process_properties
    properties,      \* the raw batch handed to process_properties
    historical,      \* the historical pool handed to process_properties
    dolar_mep,       \* the reference rate
    now,             \* the clock value (days), read by calculate_days_online
    normalized,      \* output of step 2 (normalize_property per record)
    relisted,        \* output of step 3 (detect_relistings)
    with_microzones, \* output of step 4 (calculate_all_microzones)
    scored,          \* output of step 5 (score_all_properties)
    raised,          \* the stage whose code raised, or "" when none did
    execution,       \* the number of the run of the program: 1, then 2, ...
    first_scored,    \* what the first run returned
    fn_in,           \* arguments of a function called on its own
    fn_out           \* the results its calls returned, in order

vars == <<spreadsheet, pc, properties, historical, dolar_mep, now, normalized, relisted,
          with_microzones, scored, raised, execution, first_scored, fn_in, fn_out>>

-----------------------------------------------------------------------------
(* Arithmetic helpers *)

Abs(x) == IF x < 0 THEN -x ELSE x

Min(a, b) == IF a <= b THEN a ELSE b

Max(a, b) == IF a >= b THEN a ELSE b

RECURSIVE GCD(_, _)
GCD(a, b) == IF b = 0 THEN a ELSE GCD(b, a % b)

\* the rational n/d in lowest terms with a positive denominator (d # 0)
Rat(n, d) ==
    LET g == GCD(Abs(n), Abs(d))
        s == IF d < 0 THEN -1 ELSE 1
    IN  [n |-> s * (n \div g), d |-> s * (d \div g)]

RInt(i) == [n |-> i, d |-> 1]

RNeg(a) == [n |-> -a.n, d |-> a.d]

\* sums and products reduce before they multiply, to stay within TLC's integers
RAdd(a, b) ==
    LET l == (a.d \div GCD(a.d, b.d)) * b.d
    IN  Rat(a.n * (l \div a.d) + b.n * (l \div b.d), l)

RSub(a, b) == RAdd(a, RNeg(b))

RMul(a, b) ==
    LET g1 == GCD(Abs(a.n), b.d)
        g2 == GCD(Abs(b.n), a.d)
    IN  Rat((a.n \div g1) * (b.n \div g2), (a.d \div g2) * (b.d \div g1))

\* a / b for b # 0
RDiv(a, b) == RMul(a, IF b.n < 0 THEN [n |-> -b.d, d |-> -b.n] ELSE [n |-> b.d, d |-> b.n])

RLt(a, b) == RSub(a, b).n < 0

RLe(a, b) == RSub(a, b).n <= 0

RAbs(a) == [n |-> Abs(a.n), d |-> a.d]

RZero == RInt(0)

-----------------------------------------------------------------------------
(* Python values *)

None == [none |-> TRUE]

Num(q) == [num |-> q]

NumI(i) == [num |-> RInt(i)]

Str(s) == [str |-> s]

Bool(b) == [bool |-> b]

List(s) == [list |-> s]

IsNone(v) == "none" \in DOMAIN v

IsNum(v) == "num" \in DOMAIN v

IsStr(v) == "str" \in DOMAIN v

\* dict.get(key, default)
GetOr(d, k, default) == IF k \in DOMAIN d THEN d[k] ELSE default

\* dict.get(key)
Get(d, k) == GetOr(d, k, None)

\* d[k] = v on a copy of d
\* d after d[k] = e[k] for each key k of e
Update(d, e) == e @@ d

Put(d, k, v) == (k :> v) @@ d

\* Python truthiness of a value
Truthy(v) ==
    IF IsNone(v) THEN FALSE
    ELSE IF IsNum(v) THEN v.num.n # 0
    ELSE IF IsStr(v) THEN v.str # <<>>
    ELSE IF "bool" \in DOMAIN v THEN v.bool
    ELSE IF "list" \in DOMAIN v THEN v.list # <<>>
    ELSE v.root.sgn # 0

-----------------------------------------------------------------------------
(* Text helpers: str.lower, str.strip, str.split, "in", str.replace *)

Upper == <<"A","B","C","D","E","F","G","H","I","J","K","L","M","N","O","P","Q",
           "R","S","T","U","V","W","X","Y","Z","Á","É","Í","Ó","Ú","Ñ">>

LowerOf == <<"a","b","c","d","e","f","g","h","i","j","k","l","m","n","o","p","q",
             "r","s","t","u","v","w","x","y","z","á","é","í","ó","ú","ñ">>

Accented == <<"á","é","í","ó","ú","ñ","ü">>

Unaccented == <<"a","e","i","o","u","n","u">>

Digits == <<"0","1","2","3","4","5","6","7","8","9">>

Range(s) == {s[i] : i \in DOMAIN s}

\* the sequence s held as a tuple: a function expression [i \in S |-> e] is
\* evaluated anew at each application, a tuple is not
Tuple(s) == s \o <<>>

UpperChars == Range(Upper)

DigitChars == Range(Digits)

AccentedChars == Range(Accented)

\* \w of the re module: letters (accented ones too), digits, underscore
WordChars == Range(LowerOf) \cup Range(Upper) \cup Range(Accented) \cup Range(Digits) \cup {"_"}

IndexOf(s, c) == CHOOSE i \in DOMAIN s : s[i] = c

LowerChar(c) == IF c \in UpperChars THEN LowerOf[IndexOf(Upper, c)] ELSE c

\* str.lower()
Lower(t) == Tuple([i \in DOMAIN t |-> LowerChar(t[i])])

IsSpace(c) == c = " "

IsDigit(c) == c \in DigitChars

DigitVal(c) == IndexOf(Digits, c) - 1

IsWord(c) == c \in WordChars

RECURSIVE LStrip(_)
LStrip(t) == IF t # <<>> /\ IsSpace(Head(t)) THEN LStrip(Tail(t)) ELSE t

RECURSIVE RStrip(_)
RStrip(t) ==
    IF t # <<>> /\ IsSpace(t[Len(t)]) THEN RStrip(SubSeq(t, 1, Len(t) - 1)) ELSE t

\* str.strip()
Strip(t) == RStrip(LStrip(t))

\* t[i..] starts with p
StartsAt(t, i, p) ==
    /\ i + Len(p) - 1 <= Len(t)
    /\ \A j \in 1..Len(p) : t[i + j - 1] = p[j]

\* p in t
Contains(t, p) == \E i \in 1..(Len(t) + 1) : StartsAt(t, i, p)

\* str.replace(old, new): every non-overlapping occurrence, left to right
RECURSIVE Replace(_, _, _)
Replace(t, old, new) ==
    IF t = <<>> THEN <<>>
    ELSE IF StartsAt(t, 1, old)
         THEN new \o Replace(SubSeq(t, Len(old) + 1, Len(t)), old, new)
         ELSE <<Head(t)>> \o Replace(Tail(t), old, new)

\* the words of str.split(), as a sequence
RECURSIVE Split(_)
Split(t) ==
    LET s == LStrip(t)
        RECURSIVE WordLen(_)
        WordLen(i) == IF i <= Len(s) /\ ~IsSpace(s[i]) THEN WordLen(i + 1) ELSE i - 1
    IN  IF s = <<>> THEN <<>>
        ELSE <<SubSeq(s, 1, WordLen(1))>> \o Split(SubSeq(s, WordLen(1) + 1, Len(s)))

\* the end of the maximal run of characters of the set S that starts at i
\* (i - 1 when t[i] is not in S)
RECURSIVE RunEnd(_, _, _)
RunEnd(t, i, S) == IF i <= Len(t) /\ t[i] \in S THEN RunEnd(t, i + 1, S) ELSE i - 1

\* int() of a tuple of digits
RECURSIVE DigitsToInt(_)
DigitsToInt(ds) ==
    IF ds = <<>> THEN 0 ELSE 10 * DigitsToInt(SubSeq(ds, 1, Len(ds) - 1)) + DigitVal(ds[Len(ds)])

RECURSIVE Pow10(_)
Pow10(k) == IF k = 0 THEN 1 ELSE 10 * Pow10(k - 1)

-----------------------------------------------------------------------------
(* Results of a call: a returned value, or an exception that propagates *)

Ok(v) == [ok |-> TRUE, val |-> v]

Raise == [ok |-> FALSE]

\* the next step applied to the value of r, unless r is an exception
Then(r, step(_)) == IF r.ok THEN step(r.val) ELSE Raise

-----------------------------------------------------------------------------
(* analysis/normalizer.py *)

DOLAR_MEP == 1150

\* normalize_price_to_usd(price, currency, dolar_mep); price and currency are
\* Python values, dolar_mep a rational.  None / float raises TypeError.
normalize_price_to_usd(price, currency, mep) ==
    IF currency = Str(<<"U","S","D">>) THEN Ok(price)
    ELSE IF currency = Str(<<"A","R","S">>)
         THEN IF RLt(RZero, mep)
              THEN IF IsNum(price) THEN Ok(Num(RDiv(price.num, mep))) ELSE Raise
              ELSE Ok(Num(RZero))
         ELSE Ok(price)

RoomWords == {<<"a","m","b">>, <<"a","m","b","i","e","n","t","e">>, <<"d","o","r","m","i","t","o","r","i","o">>, <<"h","a","b","i","t","a","c","i","o","n">>}

\* re.search(r'(\d+)\s*(?:amb|ambiente|dormitorio|habitacion)', t) matches at i
RoomsMatchAt(t, i) ==
    /\ IsDigit(t[i])
    /\ LET e == RunEnd(t, i, DigitChars)
           w == RunEnd(t, e + 1, {" "})
       IN  \E k \in RoomWords : StartsAt(t, w + 1, k)

text_to_num == << <<<<"u","n"," ">>, 1>>, <<<<"u","n","o">>, 1>>, <<<<"u","n","a">>, 1>>, <<<<"d","o","s">>, 2>>,
                  <<<<"t","r","e","s">>, 3>>, <<<<"c","u","a","t","r","o">>, 4>>, <<<<"c","i","n","c","o">>, 5>>,
                  <<<<"s","e","i","s">>, 6>>, <<<<"s","i","e","t","e">>, 7>> >>

\* the least member of a non-empty set of positions
First(hits) == CHOOSE x \in hits : \A y \in hits : x <= y

\* normalize_rooms(text) for a str
normalize_rooms(text) ==
    IF text = <<>> THEN 0
    ELSE LET Rooms(t, hits, words) ==
                 IF Contains(t, <<"m","o","n","o">>) THEN 1
                 ELSE IF hits # {}
                      THEN DigitsToInt(SubSeq(t, First(hits),
                                              RunEnd(t, First(hits), DigitChars)))
                      ELSE IF words # {} THEN text_to_num[First(words)][2] ELSE 0
             In(t) == Rooms(t, {i \in DOMAIN t : RoomsMatchAt(t, i)},
                            {k \in DOMAIN text_to_num : Contains(t, text_to_num[k][1])})
         IN  In(Strip(Lower(text)))

AreaChars == DigitChars \cup {".", ","}

AreaUnits == {<<"m","²">>, <<"m","2">>, <<"m","t","s">>, <<"m","e","t","r","o","s">>}

\* group(1).replace('.', '').replace(',', '.')
AreaStr(run) == Replace(Replace(run, <<".">>, <<>>), <<",">>, <<".">>)

\* float(s) for s made of digits and dots: ValueError unless s has a digit and
\* at most one dot
ParseFloat(s) ==
    LET Parsed(dots) ==
            IF Cardinality(dots) > 1 \/ Len(s) - Cardinality(dots) = 0 THEN Raise
            ELSE IF dots = {} THEN Ok(RInt(DigitsToInt(s)))
            ELSE Ok(Rat(DigitsToInt(SubSeq(s, 1, First(dots) - 1)
                                        \o SubSeq(s, First(dots) + 1, Len(s))),
                        Pow10(Len(s) - First(dots))))
    IN  Parsed({i \in DOMAIN s : s[i] = "."})

\* re.search(r'([\d.,]+)\s*(?:m²|m2|mts|metros)', t) matches at i
AreaUnitMatchAt(t, i) ==
    /\ t[i] \in AreaChars
    /\ LET e == RunEnd(t, i, AreaChars)
           w == RunEnd(t, e + 1, {" "})
       IN  \E u \in AreaUnits : StartsAt(t, w + 1, u)

\* float(...) of the run of AreaChars at the first of hits; no match or a
\* ValueError gives Raise
FloatAt(t, hits) ==
    IF hits = {} THEN Raise
    ELSE ParseFloat(AreaStr(SubSeq(t, First(hits), RunEnd(t, First(hits), AreaChars))))

\* normalize_area(text) for a str
normalize_area(text) ==
    IF text = <<>> THEN RZero
    ELSE LET Area(f1, f2) == IF f1.ok THEN f1.val ELSE IF f2.ok THEN f2.val ELSE RZero
             WithUnit(low) == FloatAt(low, {i \in DOMAIN low : AreaUnitMatchAt(low, i)})
         IN  Area(WithUnit(Lower(text)),
                  FloatAt(text, {i \in DOMAIN text : text[i] \in AreaChars}))

\* unicodedata.normalize('NFD', ..) with the combining marks removed
StripAccents(t) ==
    Tuple([i \in DOMAIN t |->
              IF t[i] \in AccentedChars THEN Unaccented[IndexOf(Accented, t[i])] ELSE t[i]])

replacements == << <<<<"a","v",".">>, <<"a","v","e","n","i","d","a">>>>, <<<<"a","v"," ">>, <<"a","v","e","n","i","d","a"," ">>>>,
                   <<<<"c","a","l","l","e"," ">>, <<>>>>, <<<<"e","s","q",".">>, <<"e","s","q","u","i","n","a">>>>,
                   <<<<"p","i","s","o"," ">>, <<"p","i","s","o"," ">>>>, <<<<"d","t","o",".">>, <<"d","e","p","a","r","t","a","m","e","n","t","o">>>>,
                   <<<<"d","p","t","o",".">>, <<"d","e","p","a","r","t","a","m","e","n","t","o">>>>, <<<<"d","e","p","t","o",".">>, <<"d","e","p","a","r","t","a","m","e","n","t","o">>>> >>

\* the replacements k.. of the table applied in order
RECURSIVE ApplyReplacements(_, _)
ApplyReplacements(t, k) ==
    IF k > Len(replacements) THEN t
    ELSE ApplyReplacements(Replace(t, replacements[k][1], replacements[k][2]), k + 1)

\* re.sub(r'\s+', ' ', t)
RECURSIVE CollapseSpaces(_)
CollapseSpaces(t) ==
    IF t = <<>> THEN <<>>
    ELSE IF IsSpace(Head(t))
         THEN <<" ">> \o CollapseSpaces(LStrip(t))
         ELSE <<Head(t)>> \o CollapseSpaces(Tail(t))

\* normalize_address(address); address is a Python value
normalize_address(address) ==
    IF ~Truthy(address) THEN <<>>
    ELSE LET a == StripAccents(Strip(Lower(address.str)))
             b == ApplyReplacements(a, 1)
             c == Tuple([i \in DOMAIN b |->
                            IF IsWord(b[i]) \/ IsSpace(b[i]) THEN b[i] ELSE " "])
         IN  Strip(CollapseSpaces(c))

\* x == 0 in Python
PyEqZero(v) == IsNum(v) /\ v.num.n = 0

\* x > 0 in Python, for a number x
PyGtZero(v) == RLt(RZero, v.num)

UNCOVERED_RATIO == Rat(115, 100)

\* the price step writing the converted price over precio_original as well:
\* the fault C10's formula must detect
WithPriceInPlace(data, mep) ==
    IF "precio_original" \in DOMAIN data /\ "moneda" \in DOMAIN data
    THEN LET Priced(usd) ==
                 IF usd.ok
                 THEN Ok(Update(data, [precio_usd_mep |-> usd.val, precio_original |-> usd.val]))
                 ELSE Raise
         IN  Priced(normalize_price_to_usd(data["precio_original"], data["moneda"], mep))
    ELSE Ok(Put(data, "precio_usd_mep", Num(RZero)))

\* the first step of normalize_property: normalized = data.copy() with
\* precio_usd_mep set
WithPrice(data, mep) ==
    IF "precio_original" \in DOMAIN data /\ "moneda" \in DOMAIN data
    THEN LET Priced(usd) == IF usd.ok THEN Ok(Put(data, "precio_usd_mep", usd.val)) ELSE Raise
         IN  Priced(normalize_price_to_usd(data["precio_original"], data["moneda"], mep))
    ELSE Ok(Put(data, "precio_usd_mep", Num(RZero)))

\* if isinstance(data.get(k), str): normalized[k] = normalize_area(data[k])
WithArea(n, k) ==
    IF IsStr(Get(n, k)) THEN Put(n, k, Num(normalize_area(n[k].str))) ELSE n

\* the text fields ambientes, m2_total and m2_cubiertos turned into numbers;
\* data and normalized hold the same value for each until it is assigned
WithFeatures(n) ==
    Ok(WithArea(WithArea(IF IsStr(Get(n, "ambientes"))
                         THEN Put(n, "ambientes", NumI(normalize_rooms(n["ambientes"].str)))
                         ELSE n,
                         "m2_total"),
                "m2_cubiertos"))

\* m2_total estimated from m2_cubiertos; None > 0 raises TypeError
WithTotal(n) ==
    IF PyEqZero(GetOr(n, "m2_total", NumI(0)))
    THEN IF ~IsNum(GetOr(n, "m2_cubiertos", NumI(0))) THEN Raise
         ELSE IF PyGtZero(GetOr(n, "m2_cubiertos", NumI(0)))
              THEN Ok(Put(n, "m2_total", Num(RMul(n["m2_cubiertos"].num, UNCOVERED_RATIO))))
              ELSE Ok(n)
    ELSE Ok(n)

\* normalized['direccion_normalizada'] = normalize_address(data.get('direccion', ''))
WithAddress(n) ==
    Ok(Put(n, "direccion_normalizada",
           Str(normalize_address(GetOr(n, "direccion", Str(<<>>))))))

\* normalized['precio_m2']; a comparison of None or a str with 0 raises TypeError
WithPriceM2(n) ==
    LET total == GetOr(n, "m2_total", NumI(0))
        usd == GetOr(n, "precio_usd_mep", NumI(0))
    IN  IF ~IsNum(total) THEN Raise
        ELSE IF PyGtZero(total) /\ ~IsNum(usd) THEN Raise
        ELSE Ok(Put(n, "precio_m2",
                    IF PyGtZero(total) /\ PyGtZero(usd)
                    THEN Num(RDiv(usd.num, total.num))
                    ELSE Num(RZero)))

\* normalize_property(data, dolar_mep)
normalize_property(data, mep) ==
    Then(Then(Then(Then(WithPrice(data, mep), WithFeatures), WithTotal), WithAddress),
         WithPriceM2)

-----------------------------------------------------------------------------
(* analysis/relisting_detector.py *)

RSq(a) == RMul(a, a)

\* haversine_distance(lat1, lon1, lat2, lon2), squared: the distance is only
\* ever compared with a threshold, and d < t is d^2 < t^2 for d, t >= 0
haversine_distance_sq(lat1, lon1, lat2, lon2) ==
    RAdd(RSq(RSub(lat2, lat1)), RSq(RSub(lon2, lon1)))

\* set(text.lower().split())
WordSet(text) == Range(Split(Lower(text)))

\* simple_text_similarity(text1, text2) for two str
simple_text_similarity(text1, text2) ==
    IF text1 = <<>> \/ text2 = <<>> THEN RZero
    ELSE LET Jaccard(words1, words2) ==
                 IF words1 = {} \/ words2 = {} THEN RZero
                 ELSE Rat(Cardinality(words1 \cap words2), Cardinality(words1 \cup words2))
         IN  Jaccard(WordSet(text1), WordSet(text2))

GEO_THRESHOLD_METERS == 50

TEXT_SIMILARITY_THRESHOLD == Rat(7, 10)

W_ADDRESS == 40

W_ADDRESS_FUZZY == 30

W_GEO == 25

W_GEO_NEAR == 15

W_FEATURES == 20

W_FEATURES_PARTIAL == 10

W_DESCRIPTION == 15

W_DESCRIPTION_PARTIAL == 8

CONFIDENCE_THRESHOLD == Rat(6, 10)

\* 1. Match por direccion normalizada
AddressScore(new, old) ==
    LET a == Get(new, "direccion_normalizada")
        b == Get(old, "direccion_normalizada")
    IN  IF Truthy(a) /\ Truthy(b)
        THEN IF a = b THEN W_ADDRESS
             ELSE IF RLt(Rat(8, 10), simple_text_similarity(a.str, b.str))
                  THEN W_ADDRESS_FUZZY
                  ELSE 0
        ELSE 0

\* 2. Match geografico
GeoScore(new, old) ==
    IF /\ Truthy(Get(new, "lat")) /\ Truthy(Get(new, "lng"))
       /\ Truthy(Get(old, "lat")) /\ Truthy(Get(old, "lng"))
    THEN LET Tier(d2) ==
                 IF RLt(d2, RInt(GEO_THRESHOLD_METERS * GEO_THRESHOLD_METERS))
                 THEN W_GEO
                 ELSE IF RLt(d2, RInt((GEO_THRESHOLD_METERS * 2) * (GEO_THRESHOLD_METERS * 2)))
                      THEN W_GEO_NEAR
                      ELSE 0
         IN  Tier(haversine_distance_sq(new["lat"].num, new["lng"].num,
                                        old["lat"].num, old["lng"].num))
    ELSE 0

\* 3. the number of matching physical features
FeaturesMatch(new, old) ==
    LET m2 == IF Truthy(Get(new, "m2_total")) /\ Truthy(Get(old, "m2_total"))
              THEN IF RLt(RDiv(RAbs(RSub(new["m2_total"].num, old["m2_total"].num)),
                               old["m2_total"].num),
                          Rat(5, 100))
                   THEN 1 ELSE 0
              ELSE 0
        amb == IF Truthy(Get(new, "ambientes")) /\ Truthy(Get(old, "ambientes"))
                  /\ new["ambientes"] = old["ambientes"]
               THEN 1 ELSE 0
        piso == IF ~IsNone(Get(new, "piso")) /\ ~IsNone(Get(old, "piso"))
                   /\ new["piso"] = old["piso"]
                THEN 1 ELSE 0
        barrio == IF Truthy(Get(new, "barrio")) /\ Truthy(Get(old, "barrio"))
                     /\ Lower(new["barrio"].str) = Lower(old["barrio"].str)
                  THEN 1 ELSE 0
    IN  m2 + amb + piso + barrio

FeaturesScore(new, old) ==
    LET Tier(features_match) ==
            IF features_match >= 3 THEN W_FEATURES
            ELSE IF features_match >= 2 THEN W_FEATURES_PARTIAL
            ELSE 0
    IN  Tier(FeaturesMatch(new, old))

\* 4. Similitud de descripcion
DescriptionScore(new, old) ==
    IF Truthy(Get(new, "descripcion")) /\ Truthy(Get(old, "descripcion"))
    THEN LET Tier(s) ==
                 IF RLt(TEXT_SIMILARITY_THRESHOLD, s) THEN W_DESCRIPTION
                 ELSE IF RLt(Rat(5, 10), s) THEN W_DESCRIPTION_PARTIAL
                 ELSE 0
         IN  Tier(simple_text_similarity(new["descripcion"].str, old["descripcion"].str))
    ELSE 0

\* match_score after the four groups
MatchScore(new, old) ==
    AddressScore(new, old) + GeoScore(new, old) + FeaturesScore(new, old)
        + DescriptionScore(new, old)

\* max_score after the four groups: each "max_score += w" is unconditional
MaxScore(new, old) == W_ADDRESS + W_GEO + W_FEATURES + W_DESCRIPTION

\* confidence = match_score / max_score if max_score > 0 else 0
Confidence(new, old) ==
    IF MaxScore(new, old) > 0 THEN Rat(MatchScore(new, old), MaxScore(new, old)) ELSE RZero

\* the price change taken relative to the new price: the fault C3's formula
\* must detect
PriceDeltaOfNew(new, old) ==
    IF Truthy(Get(new, "precio_usd_mep")) /\ Truthy(Get(old, "precio_usd_mep"))
       /\ RLt(RZero, old["precio_usd_mep"].num)
    THEN Num(RMul(RDiv(RSub(new["precio_usd_mep"].num, old["precio_usd_mep"].num),
                       new["precio_usd_mep"].num),
                  RInt(100)))
    ELSE None

\* delta_pct of an accepted candidate
PriceDelta(new, old) ==
    IF Truthy(Get(new, "precio_usd_mep")) /\ Truthy(Get(old, "precio_usd_mep"))
       /\ RLt(RZero, old["precio_usd_mep"].num)
    THEN Num(RMul(RDiv(RSub(new["precio_usd_mep"].num, old["precio_usd_mep"].num),
                       old["precio_usd_mep"].num),
                  RInt(100)))
    ELSE None

\* the first "continue" test alone: the fault C23's formula must detect
SkippedById(new, old) == Get(new, "id") = Get(old, "id")

\* the two "continue" tests at the head of the loop body
Skipped(new, old) ==
    \/ Get(new, "id") = Get(old, "id")
    \/ Get(new, "source") = Get(old, "source") /\ Get(new, "url") = Get(old, "url")

\* the loop accepting the first candidate it does not skip, whatever its
\* confidence: the fault C17's formula must detect
RECURSIVE is_relisting_any(_, _, _)
is_relisting_any(new, pool, k) ==
    IF k > Len(pool)
    THEN [is_relist |-> FALSE, original |-> None, delta_pct |-> None, examined |-> Len(pool)]
    ELSE IF ~Skipped(new, pool[k])
         THEN [is_relist |-> TRUE, original |-> pool[k],
               delta_pct |-> PriceDelta(new, pool[k]), examined |-> k]
         ELSE is_relisting_any(new, pool, k + 1)

\* the loop going through the whole pool and keeping the candidate of highest
\* confidence: the fault C2's formula must detect
is_relisting_best(new, pool, k) ==
    LET Best(ok) ==
            IF ok = {}
            THEN [is_relist |-> FALSE, original |-> None, delta_pct |-> None,
                  examined |-> Len(pool)]
            ELSE LET At(j) == [is_relist |-> TRUE, original |-> pool[j],
                               delta_pct |-> PriceDelta(new, pool[j]), examined |-> Len(pool)]
                 IN  At(CHOOSE j \in ok : \A i \in ok :
                            \/ RLt(Confidence(new, pool[i]), Confidence(new, pool[j]))
                            \/ Confidence(new, pool[i]) = Confidence(new, pool[j]) /\ j <= i)
    IN  Best({j \in k..Len(pool) :
                 /\ ~Skipped(new, pool[j])
                 /\ RLe(CONFIDENCE_THRESHOLD, Confidence(new, pool[j]))})

\* the loop of is_relisting from pool position k on; examined is the number of
\* pool entries the loop has visited when it returns
RECURSIVE is_relisting_from(_, _, _)
is_relisting_from(new, pool, k) ==
    IF k > Len(pool)
    THEN [is_relist |-> FALSE, original |-> None, delta_pct |-> None, examined |-> Len(pool)]
    ELSE IF ~Skipped(new, pool[k]) /\ RLe(CONFIDENCE_THRESHOLD, Confidence(new, pool[k]))
         THEN [is_relist |-> TRUE, original |-> pool[k],
               delta_pct |-> PriceDelta(new, pool[k]), examined |-> k]
         ELSE is_relisting_from(new, pool, k + 1)

\* is_relisting(new_property, historical_properties)
is_relisting(new, pool) == is_relisting_from(new, pool, 1)

\* the loop body reading the link from the new record instead of the accepted
\* candidate: the fault C16's formula must detect
RelistingFieldsOfNew(prop, hist) ==
    LET Fields(r) ==
            IF r.is_relist
            THEN Update(prop, [status |-> Str(<<"r","e","l","i","s","t","e","d">>),
                               original_id |-> Get(prop, "original_id"),
                               original_price |-> Get(r.original, "precio_usd_mep"),
                               price_delta_pct |-> r.delta_pct])
            ELSE Update(prop, [status |-> Str(<<"a","c","t","i","v","e">>),
                               original_id |-> None,
                               original_price |-> None,
                               price_delta_pct |-> None])
    IN  Fields(is_relisting(prop, hist))

\* the body of the loop of detect_relistings: prop_copy for one prop
RelistingFields(prop, hist) ==
    LET Fields(r) ==
            IF r.is_relist
            THEN Update(prop, [status |-> Str(<<"r","e","l","i","s","t","e","d">>),
                               original_id |-> Get(r.original, "id"),
                               original_price |-> Get(r.original, "precio_usd_mep"),
                               price_delta_pct |-> r.delta_pct])
            ELSE Update(prop, [status |-> Str(<<"a","c","t","i","v","e">>),
                               original_id |-> None,
                               original_price |-> None,
                               price_delta_pct |-> None])
    IN  Fields(is_relisting(prop, hist))

\* detect_relistings(properties, historical)
detect_relistings(props, hist) ==
    Tuple([i \in DOMAIN props |-> RelistingFields(props[i], hist)])

-----------------------------------------------------------------------------
(* analysis/microzone_calculator.py *)

MICROZONE_RADIUS_METERS == 400

\* a float that is a square root: sgn * sqrt(sq)
Root(sgn, sq) == [root |-> [sgn |-> IF sq.n = 0 THEN 0 ELSE sgn, sq |-> sq]]

RootZero == Root(0, RZero)

Sign(q) == IF q.n > 0 THEN 1 ELSE IF q.n < 0 THEN -1 ELSE 0

\* z < q for a z-score z and a rational q
RootLt(z, q) ==
    IF q.n < 0 THEN z.root.sgn < 0 /\ RLt(RSq(q), z.root.sq)
    ELSE z.root.sgn <= 0 \/ RLt(z.root.sq, RSq(q))

RECURSIVE RSum(_)
RSum(s) == IF s = <<>> THEN RZero ELSE RAdd(Head(s), RSum(Tail(s)))

\* the subsequence of s at the positions in keep
RECURSIVE SelectIdx(_, _)
SelectIdx(s, keep) ==
    IF s = <<>> THEN <<>>
    ELSE (IF Len(s) \in keep THEN SelectIdx(SubSeq(s, 1, Len(s) - 1), keep) \o <<s[Len(s)]>>
          ELSE SelectIdx(SubSeq(s, 1, Len(s) - 1), keep))

\* the radius taken as exclusive (distance < radius_meters): the fault C15's
\* formula must detect
get_properties_in_radius_strict(center_lat, center_lng, props, radius) ==
    SelectIdx(props,
        {i \in DOMAIN props :
            /\ ~IsNone(Get(props[i], "lat")) /\ ~IsNone(Get(props[i], "lng"))
            /\ RLt(haversine_distance_sq(center_lat, center_lng,
                                         props[i]["lat"].num, props[i]["lng"].num),
                   RInt(radius * radius))})

\* get_properties_in_radius(center_lat, center_lng, properties, radius_meters)
get_properties_in_radius(center_lat, center_lng, props, radius) ==
    SelectIdx(props,
        {i \in DOMAIN props :
            /\ ~IsNone(Get(props[i], "lat")) /\ ~IsNone(Get(props[i], "lng"))
            /\ RLe(haversine_distance_sq(center_lat, center_lng,
                                         props[i]["lat"].num, props[i]["lng"].num),
                   RInt(radius * radius))})

EmptyStats ==
    [mean |-> RZero, std |-> RootZero, median |-> RZero, min |-> RZero, max |-> RZero,
     count |-> 0, mean_m2 |-> RZero]

\* p.get(field, 0) > 0 raises TypeError when the value is not a number
StatsRaises(props) ==
    \E i \in DOMAIN props :
        \/ ~IsNum(GetOr(props[i], "precio_usd_mep", NumI(0)))
        \/ ~IsNum(GetOr(props[i], "precio_m2", NumI(0)))

\* [p[field] for p in properties if p.get(field, 0) > 0]
ValidValues(props, field) ==
    LET Values(sel) == Tuple([k \in DOMAIN sel |-> sel[k][field].num])
    IN  Values(SelectIdx(props,
                         {i \in DOMAIN props : PyGtZero(GetOr(props[i], field, NumI(0)))}))

\* sum(s) / len(s)
Mean(s) == RDiv(RSum(s), RInt(Len(s)))

\* sum((p - mean) ** 2 for p in s) / len(s)
Variance(s, mean) ==
    RDiv(RSum(Tuple([k \in DOMAIN s |-> RSq(RSub(s[k], mean))])), RInt(Len(s)))

\* the median of a sorted list
Median(sorted_prices) ==
    IF Len(sorted_prices) % 2 = 0
    THEN RDiv(RAdd(sorted_prices[Len(sorted_prices) \div 2],
                   sorted_prices[(Len(sorted_prices) \div 2) + 1]), RInt(2))
    ELSE sorted_prices[(Len(sorted_prices) \div 2) + 1]

\* calculate_microzone_stats(properties), price_field = 'precio_usd_mep'
calculate_microzone_stats(props) ==
    LET Stats(prices, sorted_prices, prices_m2) ==
            IF prices = <<>> THEN EmptyStats
            ELSE [mean |-> Mean(prices),
                  std |-> Root(1, Variance(prices, Mean(prices))),
                  median |-> Median(sorted_prices),
                  min |-> sorted_prices[1],
                  max |-> sorted_prices[Len(sorted_prices)],
                  count |-> Len(prices),
                  mean_m2 |-> IF prices_m2 # <<>> THEN Mean(prices_m2) ELSE RZero]
        Of(prices) == Stats(prices, SortSeq(prices, RLt), ValidValues(props, "precio_m2"))
    IN  IF props = <<>> THEN EmptyStats ELSE Of(ValidValues(props, "precio_usd_mep"))

\* calculate_zscore(value, mean, std): value and mean rationals, std a root
calculate_zscore(value, mean, std) ==
    IF std.root.sgn = 0 THEN RootZero
    ELSE Root(Sign(RSub(value, mean)) * std.root.sgn,
              RDiv(RSq(RSub(value, mean)), std.root.sq))

\* the comparison set of prop in calculate_all_microzones
ComparisonSet(prop, props, radius) ==
    IF IsNone(Get(prop, "lat")) \/ IsNone(Get(prop, "lng"))
    THEN SelectIdx(props, {i \in DOMAIN props : Get(props[i], "barrio") = Get(prop, "barrio")})
    ELSE get_properties_in_radius(prop["lat"].num, prop["lng"].num, props, radius)

\* the third argument of the zscore_m2 call:
\* stats['std'] / prop.get('m2_total', 1) if prop.get('m2_total') else 1
StdPerArea(prop, std) ==
    IF Truthy(Get(prop, "m2_total"))
    THEN Root(std.root.sgn * Sign(prop["m2_total"].num),
              RDiv(std.root.sq, RSq(prop["m2_total"].num)))
    ELSE Root(1, RInt(1))

\* prop.get('precio_usd_mep', 0) > 0 raises TypeError for a non-number
MicrozoneRaises(prop, props, radius) ==
    \/ StatsRaises(ComparisonSet(prop, props, radius))
    \/ ~IsNum(GetOr(prop, "precio_usd_mep", NumI(0)))

\* the loop body without its else branch, zscore and zscore_m2 being set only
\* when they are computed: the fault C13's formula must detect
MicrozoneFieldsNoDefault(prop, props, radius) ==
    LET Stats(stats) ==
            Update(prop,
                [microzone_mean |-> Num(stats.mean),
                 microzone_std |-> stats.std,
                 microzone_median |-> Num(stats.median),
                 microzone_count |-> NumI(stats.count),
                 microzone_mean_m2 |-> Num(stats.mean_m2)])
        Fields(stats, signal) ==
            IF signal
            THEN Update(Stats(stats),
                     [zscore |-> calculate_zscore(prop["precio_usd_mep"].num,
                                                  stats.mean, stats.std),
                      zscore_m2 |-> calculate_zscore(GetOr(prop, "precio_m2", NumI(0)).num,
                                                     stats.mean_m2,
                                                     StdPerArea(prop, stats.std))])
            ELSE Stats(stats)
        With(stats) ==
            Fields(stats, PyGtZero(GetOr(prop, "precio_usd_mep", NumI(0)))
                              /\ stats.std.root.sgn > 0)
    IN  With(calculate_microzone_stats(ComparisonSet(prop, props, radius)))

\* the body of the loop of calculate_all_microzones: prop_copy for one prop
MicrozoneFields(prop, props, radius) ==
    LET Fields(stats, signal) ==
            Update(prop,
                [microzone_mean |-> Num(stats.mean),
                 microzone_std |-> stats.std,
                 microzone_median |-> Num(stats.median),
                 microzone_count |-> NumI(stats.count),
                 microzone_mean_m2 |-> Num(stats.mean_m2),
                 zscore |->
                    IF signal
                    THEN calculate_zscore(prop["precio_usd_mep"].num, stats.mean, stats.std)
                    ELSE RootZero,
                 zscore_m2 |->
                    IF signal
                    THEN calculate_zscore(GetOr(prop, "precio_m2", NumI(0)).num,
                                          stats.mean_m2, StdPerArea(prop, stats.std))
                    ELSE RootZero])
        With(stats) ==
            Fields(stats, PyGtZero(GetOr(prop, "precio_usd_mep", NumI(0)))
                              /\ stats.std.root.sgn > 0)
    IN  With(calculate_microzone_stats(ComparisonSet(prop, props, radius)))

\* calculate_all_microzones(properties, radius_meters)
calculate_all_microzones(props, radius) ==
    IF \E i \in DOMAIN props : MicrozoneRaises(props[i], props, radius) THEN Raise
    ELSE Ok(Tuple([i \in DOMAIN props |-> MicrozoneFields(props[i], props, radius)]))

-----------------------------------------------------------------------------
(* config/keywords.py *)

URGENCY_KEYWORDS ==
    << <<"u","r","g","e","n","t","e">>, <<"u","r","g","e">>, <<"u","r","g","e"," ","v","e","n","d","e","r">>, <<"s","u","c","e","s","i","ó","n">>, <<"s","u","c","e","s","i","o","n">>, <<"r","e","t","a","s","a","d","o">>,
       <<"r","e","t","a","s","a","d","a">>, <<"r","e","b","a","j","a","d","o">>, <<"r","e","b","a","j","a","d","a">>, <<"o","p","o","r","t","u","n","i","d","a","d">>, <<"o","p","o","r","t","u","n","i","d","a","d"," ","ú","n","i","c","a">>,
       <<"a","c","e","p","t","a"," ","p","e","r","m","u","t","a">>, <<"p","e","r","m","u","t","a">>, <<"e","s","c","u","c","h","a"," ","o","f","e","r","t","a","s">>, <<"e","s","c","u","c","h","o"," ","o","f","e","r","t","a","s">>,
       <<"a"," ","t","r","a","t","a","r">>, <<"n","e","g","o","c","i","a","b","l","e">>, <<"m","u","y"," ","n","e","g","o","c","i","a","b","l","e">>, <<"l","i","q","u","i","d","o">>, <<"l","i","q","u","i","d","a","c","i","ó","n">>,
       <<"d","i","v","o","r","c","i","o">>, <<"s","e","p","a","r","a","c","i","ó","n">>, <<"v","i","a","j","e">>, <<"v","i","a","j","o">>, <<"m","u","d","a","n","z","a">>, <<"m","e"," ","m","u","d","o">>,
       <<"v","e","n","t","a"," ","r","á","p","i","d","a">>, <<"v","e","n","t","a"," ","r","a","p","i","d","a">>, <<"d","u","e","ñ","o"," ","d","i","r","e","c","t","o">>, <<"d","u","e","ñ","o"," ","v","e","n","d","e">>,
       <<"s","i","n"," ","i","n","t","e","r","m","e","d","i","a","r","i","o","s">>, <<"b","a","j","o"," ","t","a","s","a","c","i","ó","n">>, <<"b","a","j","o"," ","t","a","s","a","c","i","o","n">>, <<"p","o","r"," ","d","e","b","a","j","o">>,
       <<"g","a","n","g","a">>, <<"r","e","g","a","l","a","r">>, <<"r","e","g","a","l","o">> >>

SECONDARY_KEYWORDS ==
    << <<"e","x","c","e","l","e","n","t","e"," ","p","r","e","c","i","o">>, <<"m","u","y"," ","b","u","e","n"," ","p","r","e","c","i","o">>, <<"i","m","p","e","r","d","i","b","l","e">>, <<"n","o"," ","t","e"," ","l","o"," ","p","i","e","r","d","a","s">>,
       <<"ú","l","t","i","m","a"," ","o","p","o","r","t","u","n","i","d","a","d">>, <<"u","l","t","i","m","a"," ","o","p","o","r","t","u","n","i","d","a","d">>, <<"o","c","a","s","i","ó","n">>, <<"o","c","a","s","i","o","n">>,
       <<"f","i","n","a","n","c","i","a","c","i","ó","n">>, <<"f","i","n","a","n","c","i","a","c","i","o","n">>, <<"c","u","o","t","a","s">> >>

KEYWORD_WEIGHTS ==
    << <<<<"u","r","g","e","n","t","e">>, 5>>, <<<<"s","u","c","e","s","i","ó","n">>, 5>>, <<<<"s","u","c","e","s","i","o","n">>, 5>>, <<<<"r","e","t","a","s","a","d","o">>, 4>>,
       <<<<"r","e","t","a","s","a","d","a">>, 4>>, <<<<"a","c","e","p","t","a"," ","p","e","r","m","u","t","a">>, 4>>, <<<<"d","i","v","o","r","c","i","o">>, 4>>,
       <<<<"l","i","q","u","i","d","a","c","i","ó","n">>, 4>>, <<<<"b","a","j","o"," ","t","a","s","a","c","i","ó","n">>, 4>>, <<<<"b","a","j","o"," ","t","a","s","a","c","i","o","n">>, 4>>,
       <<<<"d","e","f","a","u","l","t">>, 2>> >>

\* KEYWORD_WEIGHTS.get(key, default)
WeightOr(key, default) ==
    LET Weight(table) ==
            IF \E i \in DOMAIN table : table[i][1] = key
            THEN table[CHOOSE i \in DOMAIN table : table[i][1] = key][2]
            ELSE default
    IN  Weight(KEYWORD_WEIGHTS)

-----------------------------------------------------------------------------
(* config/settings.py *)

\* ZSCORE_THRESHOLD = -1.5
ZSCORE_THRESHOLD == Rat(-15, 10)

OPPORTUNITY_SCORE_THRESHOLD == 30

-----------------------------------------------------------------------------
(* analysis/opportunity_scorer.py *)

MARKET_PRICES_M2 ==
    << <<<<"p","a","l","e","r","m","o"," ","s","o","h","o">>, 3200>>, <<<<"p","a","l","e","r","m","o"," ","h","o","l","l","y","w","o","o","d">>, 3100>>,
       <<<<"p","a","l","e","r","m","o"," ","c","h","i","c","o">>, 4000>>, <<<<"p","a","l","e","r","m","o"," ","v","i","e","j","o">>, 3000>>,
       <<<<"p","a","l","e","r","m","o"," ","n","u","e","v","o">>, 2800>>, <<<<"p","a","l","e","r","m","o"," ","b","o","t","a","n","i","c","o">>, 2900>>,
       <<<<"p","a","l","e","r","m","o">>, 3100>> >>

\* MARKET_PRICES_M2.get(barrio, MARKET_PRICES_M2['palermo'])
MarketPrice(barrio) ==
    LET Price(table) ==
            IF \E i \in DOMAIN table : table[i][1] = barrio
            THEN table[CHOOSE i \in DOMAIN table : table[i][1] = barrio][2]
            ELSE table[CHOOSE i \in DOMAIN table : table[i][1] = <<"p","a","l","e","r","m","o">>][2]
    IN  Price(MARKET_PRICES_M2)

\* the keywords of the two lists found in the text: set(found) of detect_keywords
FoundKeywords(text) ==
    LET In(text_lower) ==
            {k \in Range(URGENCY_KEYWORDS) \cup Range(SECONDARY_KEYWORDS) :
                Contains(text_lower, k)}
    IN  In(Lower(text))

Perms(S) ==
    {s \in [1..Cardinality(S) -> S] : \A i, j \in 1..Cardinality(S) : s[i] = s[j] => i = j}

\* detect_keywords(text): the lists that list(set(found)) can be.  The iteration
\* order of a set of str follows the str hashes, which are salted per process.
detect_keywords(text) == IF text = <<>> THEN {<<>>} ELSE Perms(FoundKeywords(text))

RECURSIVE SumWeights(_)
SumWeights(keywords) ==
    IF keywords = <<>> THEN 0
    ELSE WeightOr(Head(keywords), WeightOr(<<"d","e","f","a","u","l","t">>, 5)) + SumWeights(Tail(keywords))

MAX_KEYWORD_SCORE == 15

\* the keyword score without the per-keyword weights, every keyword counted
\* as the strongest one: the fault C6's formula must detect
KeywordScoreFlat(keywords) ==
    IF keywords = <<>> THEN 0 ELSE Min(5 * Len(keywords), MAX_KEYWORD_SCORE)

\* calculate_keyword_score(keywords, max_score = 15)
calculate_keyword_score(keywords) ==
    IF keywords = <<>> THEN 0 ELSE Min(SumWeights(keywords), MAX_KEYWORD_SCORE)

\* calculate_days_online(first_seen); an ISO timestamp is abbreviated to its day
\* number in decimal digits, anything else fails to parse; clock is the day
\* number of datetime.now()
calculate_days_online(first_seen, clock) ==
    IF ~Truthy(first_seen) THEN 0
    ELSE IF IsStr(first_seen) /\ \A i \in DOMAIN first_seen.str : IsDigit(first_seen.str[i])
         THEN Max(0, clock - DigitsToInt(first_seen.str))
         ELSE 0

\* a reason string, as its template and the values formatted into it
PriceReason(tier, precio_m2, precio_mercado) ==
    [kind |-> "price", tier |-> tier, precio_m2 |-> precio_m2, precio_mercado |-> precio_mercado]

\* f"Ligero descuento vs mercado"
SlightReason == [kind |-> "price", tier |-> 5]

\* calculate_price_score(property_data): (score, descuento_pct, razon)
calculate_price_score(p) ==
    LET precio == GetOr(p, "precio_usd_mep", NumI(0))
        m2 == GetOr(p, "m2_total", NumI(0))
        barrio == GetOr(p, "barrio", Str(<<"P","a","l","e","r","m","o">>))
        Tiered(precio_m2, precio_mercado, descuento_pct) ==
            LET tier(t) == RLe(RInt(t), descuento_pct)
            IN  Ok([descuento_pct |-> descuento_pct,
                    score |-> IF tier(30) THEN 50 ELSE IF tier(20) THEN 40
                              ELSE IF tier(15) THEN 30 ELSE IF tier(10) THEN 20
                              ELSE IF tier(5) THEN 10 ELSE 0,
                    razon |-> IF tier(30) THEN PriceReason(30, precio_m2, precio_mercado)
                              ELSE IF tier(20) THEN PriceReason(20, precio_m2, precio_mercado)
                              ELSE IF tier(15) THEN PriceReason(15, precio_m2, precio_mercado)
                              ELSE IF tier(10) THEN PriceReason(10, precio_m2, precio_mercado)
                              ELSE IF tier(5) THEN SlightReason
                              ELSE None])
        Priced(precio_m2, precio_mercado) ==
            Tiered(precio_m2, precio_mercado,
                   RMul(RDiv(RSub(RInt(precio_mercado), precio_m2), RInt(precio_mercado)),
                        RInt(100)))
    IN  IF ~IsStr(barrio) \/ ~IsNum(precio) THEN Raise
        ELSE IF RLe(precio.num, RZero)
             THEN Ok([score |-> 0, descuento_pct |-> RZero, razon |-> None])
        ELSE IF ~IsNum(m2) THEN Raise
        ELSE IF RLe(m2.num, RZero)
             THEN Ok([score |-> 0, descuento_pct |-> RZero, razon |-> None])
        ELSE Priced(RDiv(precio.num, m2.num), MarketPrice(Lower(barrio.str)))

\* the z-score points with the sign of each tier reversed: the fault C5's
\* formula must detect
ZScorePointsSigned(zscore) ==
    IF RootLt(zscore, ZSCORE_THRESHOLD) THEN -15
    ELSE IF RootLt(zscore, RInt(-1)) THEN -10
    ELSE IF RootLt(zscore, Rat(-5, 10)) THEN -5
    ELSE 0

\* 2. Z-Score historico: the points and the reasons it appends
ZScorePoints(zscore) ==
    IF RootLt(zscore, ZSCORE_THRESHOLD) THEN 15
    ELSE IF RootLt(zscore, RInt(-1)) THEN 10
    ELSE IF RootLt(zscore, Rat(-5, 10)) THEN 5
    ELSE 0

ZScoreReasons(zscore) ==
    IF RootLt(zscore, ZSCORE_THRESHOLD) THEN <<[kind |-> "zscore", level |-> "muy bajo", zscore |-> zscore]>>
    ELSE IF RootLt(zscore, RInt(-1)) THEN <<[kind |-> "zscore", level |-> "bajo", zscore |-> zscore]>>
    ELSE <<>>

\* 4. Antiguedad del aviso
AgePoints(days_online) ==
    IF days_online > 90 THEN 10 ELSE IF days_online > 60 THEN 7
    ELSE IF days_online > 30 THEN 4 ELSE 0

AgeReasons(days_online) ==
    IF days_online > 90 THEN <<[kind |-> "age", days_online |-> days_online]>> ELSE <<>>

\* 5. Relisting con descuento
RelistingPoints(p) ==
    LET delta_pct == GetOr(p, "price_delta_pct", NumI(0))
    IN  IF Get(p, "status") = Str(<<"r","e","l","i","s","t","e","d">>) /\ Truthy(delta_pct)
        THEN IF RLt(delta_pct.num, RInt(-10)) THEN 10
             ELSE IF RLt(delta_pct.num, RInt(-5)) THEN 5
             ELSE 0
        ELSE 0

RelistingReasons(p) ==
    LET delta_pct == GetOr(p, "price_delta_pct", NumI(0))
    IN  IF Get(p, "status") = Str(<<"r","e","l","i","s","t","e","d">>) /\ Truthy(delta_pct)
           /\ RLt(delta_pct.num, RInt(-10))
        THEN <<[kind |-> "relisting", delta_pct |-> RAbs(delta_pct.num)]>>
        ELSE <<>>

\* ', '.join(keywords)
RECURSIVE Join(_)
Join(keywords) ==
    IF keywords = <<>> THEN <<>>
    ELSE IF Len(keywords) = 1 THEN keywords[1]
    ELSE keywords[1] \o <<","," ">> \o Join(Tail(keywords))

\* property_data.get('descripcion', '') + ' ' + property_data.get('titulo', '')
KeywordText(p) ==
    GetOr(p, "descripcion", Str(<<>>)).str \o <<" ">> \o GetOr(p, "titulo", Str(<<>>)).str

\* str + str raises TypeError when an operand is None
KeywordTextRaises(p) ==
    ~IsStr(GetOr(p, "descripcion", Str(<<>>))) \/ ~IsStr(GetOr(p, "titulo", Str(<<>>)))

\* final_score = min(score, 100)
FinalScore(score) == Min(score, 100)

\* the reasons with the keywords reason appended first: the fault C7's formula
\* must detect
ReasonsKeywordsFirst(price, zscore, keywords, days_online, p) ==
    (IF keywords # <<>>
     THEN <<[kind |-> "keywords", keywords |-> SubSeq(keywords, 1, Min(3, Len(keywords)))]>>
     ELSE <<>>)
    \o (IF ~IsNone(price.razon) THEN <<price.razon>> ELSE <<>>)
    \o ZScoreReasons(zscore)
    \o AgeReasons(days_online)
    \o RelistingReasons(p)

\* reasons, after the five reasons.append(...) sites in their order in the code
Reasons(price, zscore, keywords, days_online, p) ==
    (IF ~IsNone(price.razon) THEN <<price.razon>> ELSE <<>>)
    \o ZScoreReasons(zscore)
    \o (IF keywords # <<>>
        THEN <<[kind |-> "keywords", keywords |-> SubSeq(keywords, 1, Min(3, Len(keywords)))]>>
        ELSE <<>>)
    \o AgeReasons(days_online)
    \o RelistingReasons(p)

\* calculate_opportunity_score(property_data) when detect_keywords returns the
\* list keywords and datetime.now() is the day clock
ScoreWith(p, keywords, clock) ==
    LET Result(price, zscore, days_online, score) ==
            Update(p,
                [market_discount_pct |-> Num(price.descuento_pct),
                 opportunity_score |-> NumI(FinalScore(score)),
                 opportunity_reasons |->
                    List(Reasons(price, zscore, keywords, days_online, p)),
                 keywords_detected |-> Str(Join(keywords)),
                 days_online |-> NumI(days_online),
                 is_opportunity |-> Bool(FinalScore(score) >= OPPORTUNITY_SCORE_THRESHOLD)])
        Sum(price, zscore, days_online) ==
            Result(price, zscore, days_online,
                   price.score + ZScorePoints(zscore) + calculate_keyword_score(keywords)
                       + AgePoints(days_online) + RelistingPoints(p))
    IN  Sum(calculate_price_score(p).val, GetOr(p, "zscore", RootZero),
            calculate_days_online(Get(p, "first_seen"), clock))

\* calculate_opportunity_score(property_data): the results the call can have
calculate_opportunity_score(p, clock) ==
    IF ~calculate_price_score(p).ok \/ KeywordTextRaises(p) THEN {Raise}
    ELSE {Ok(ScoreWith(p, keywords, clock)) : keywords \in detect_keywords(KeywordText(p))}

-----------------------------------------------------------------------------
(* main.py: process_properties, one action per numbered step *)

\* the lists score_all_properties(properties) can return
score_all_properties(props, clock) ==
    LET Lists(results) ==
            IF \E i \in DOMAIN props : Raise \in results[i] THEN {Raise}
            ELSE {Ok(Tuple([i \in DOMAIN props |-> f[i].val])) :
                     f \in {g \in [DOMAIN props -> UNION {results[i] : i \in DOMAIN props}] :
                               \A i \in DOMAIN props : g[i] \in results[i]}}
    IN  Lists(Tuple([i \in DOMAIN props |-> calculate_opportunity_score(props[i], clock)]))

\* if not properties: return []
ReturnEmpty ==
    /\ pc = "start"
    /\ properties = <<>>
    /\ scored' = <<>>
    /\ pc' = "returned"
    /\ UNCHANGED <<spreadsheet, properties, historical, dolar_mep, now, normalized, relisted,
                   with_microzones, raised, execution, first_scored, fn_in, fn_out>>

\* 2. normalized = [normalize_property(p, dolar_mep) for p in properties]
Normalize ==
    /\ pc = "start"
    /\ properties # <<>>
    /\ \E r \in {Tuple([i \in DOMAIN properties |->
                             normalize_property(properties[i], dolar_mep)])} :
           IF \E i \in DOMAIN properties : ~r[i].ok
           THEN /\ pc' = "raised"
                /\ raised' = "normalize_property"
                /\ UNCHANGED normalized
           ELSE /\ pc' = "normalized"
                /\ normalized' = Tuple([i \in DOMAIN properties |-> r[i].val])
                /\ UNCHANGED raised
    /\ UNCHANGED <<spreadsheet, properties, historical, dolar_mep, now, relisted, with_microzones,
                   scored, execution, first_scored, fn_in, fn_out>>

\* step 3 with detect_relistings writing into the records it was given: the
\* fault C9's formula must detect
DetectRelistingsInPlace ==
    /\ pc = "normalized"
    /\ Truthy(historical)
    /\ relisted' = detect_relistings(normalized, historical.list)
    /\ normalized' = relisted'
    /\ pc' = "relisted"
    /\ UNCHANGED <<spreadsheet, properties, historical, dolar_mep, now, with_microzones,
                   scored, raised, execution, first_scored, fn_in, fn_out>>

\* 3. if historical: normalized = detect_relistings(normalized, historical)
DetectRelistings ==
    /\ pc = "normalized"
    /\ Truthy(historical)
    /\ relisted' = detect_relistings(normalized, historical.list)
    /\ pc' = "relisted"
    /\ UNCHANGED <<spreadsheet, properties, historical, dolar_mep, now, normalized, with_microzones,
                   scored, raised, execution, first_scored, fn_in, fn_out>>

\* 3. else: the normalized list goes on as it is
SkipRelistings ==
    /\ pc = "normalized"
    /\ ~Truthy(historical)
    /\ relisted' = normalized
    /\ pc' = "relisted"
    /\ UNCHANGED <<spreadsheet, properties, historical, dolar_mep, now, normalized, with_microzones,
                   scored, raised, execution, first_scored, fn_in, fn_out>>

\* 4. with_microzones = calculate_all_microzones(normalized)
CalculateMicrozones ==
    /\ pc = "relisted"
    /\ \E r \in {calculate_all_microzones(relisted, MICROZONE_RADIUS_METERS)} :
           IF r.ok
           THEN /\ with_microzones' = r.val
                /\ pc' = "microzones"
                /\ UNCHANGED raised
           ELSE /\ pc' = "raised"
                /\ raised' = "calculate_all_microzones"
                /\ UNCHANGED with_microzones
    /\ UNCHANGED <<spreadsheet, properties, historical, dolar_mep, now, normalized, relisted,
                   scored, execution, first_scored, fn_in, fn_out>>

\* 5. scored = score_all_properties(with_microzones); return scored
Score ==
    /\ pc = "microzones"
    /\ \E r \in score_all_properties(with_microzones, now) :
          IF r.ok
          THEN /\ scored' = r.val
               /\ pc' = "returned"
               /\ UNCHANGED raised
          ELSE /\ pc' = "raised"
               /\ raised' = "calculate_opportunity_score"
               /\ UNCHANGED scored
    /\ UNCHANGED <<spreadsheet, properties, historical, dolar_mep, now, normalized, relisted,
                   with_microzones, execution, first_scored, fn_in, fn_out>>

\* the program is run a second time on the same batch, pool, rate and clock
RunAgain ==
    /\ pc = "returned"
    /\ execution = 1
    /\ execution' = 2
    /\ first_scored' = scored
    /\ pc' = "start"
    /\ normalized' = <<>>
    /\ relisted' = <<>>
    /\ with_microzones' = <<>>
    /\ scored' = <<>>
    /\ UNCHANGED <<spreadsheet, properties, historical, dolar_mep, now, raised, fn_in, fn_out>>

-----------------------------------------------------------------------------
(* Inputs.  Prices and areas are kept small so that the exact arithmetic   *)
(* stays within TLC's integers; first_seen and the clock are day numbers.  *)

MaxBatch == 2

MaxDefects == 1

\* the dict with the given <<key, value>> items
Dict(items) ==
    [k \in {items[i][1] : i \in DOMAIN items} |->
        items[CHOOSE i \in DOMAIN items : items[i][1] = k][2]]

\* a raw record as a scraper builds it
Raw(id, url, price, moneda, m2, ambientes, direccion, barrio, lat, lng, descripcion, first_seen) ==
    Dict(<< <<"id", Str(id)>>, <<"source", Str(<<"z","o","n","a","p","r","o","p">>)>>, <<"url", Str(url)>>,
            <<"titulo", Str(<<"D","e","p","a","r","t","a","m","e","n","t","o"," ","e","n"," ","v","e","n","t","a">>)>>,
            <<"precio_original", price>>, <<"moneda", Str(moneda)>>,
            <<"m2_total", m2>>, <<"m2_cubiertos", NumI(1)>>,
            <<"ambientes", ambientes>>, <<"piso", NumI(4)>>,
            <<"direccion", Str(direccion)>>, <<"barrio", Str(barrio)>>,
            <<"lat", lat>>, <<"lng", lng>>,
            <<"descripcion", Str(descripcion)>>,
            <<"first_seen", Str(first_seen)>>, <<"last_seen", Str(first_seen)>>,
            <<"status", Str(<<"a","c","t","i","v","e">>)>> >>)

\* a listing in Palermo Soho, 95 days on line
RawBase ==
    Raw(<<"n","1">>, <<"z","p","/","1">>, NumI(3000), <<"U","S","D">>, NumI(1), NumI(2), <<"T","h","a","m","e","s"," ","1","5","0","0">>,
        <<"P","a","l","e","r","m","o"," ","S","o","h","o">>, NumI(-3845300), NumI(-6496000), <<"L","u","m","i","n","o","s","o"," ","a","l"," ","f","r","e","n","t","e">>, <<"1","0","5">>)

\* unit X, listed again today at 2000
RawAgain ==
    Raw(<<"n","2">>, <<"z","p","/","2">>, NumI(2000), <<"U","S","D">>, NumI(1), NumI(2), <<"A","v","."," ","S","a","n","t","a"," ","F","e"," ","3","2","0","0",","," ","4">>,
        <<"P","a","l","e","r","m","o">>, NumI(-3845010), NumI(-6496000), <<"U","r","g","e","n","t","e",","," ","a","p","t","o"," ","c","r","e","d","i","t","o">>, <<"2","0","0">>)

\* unit X as it was listed before, at 2240
RawEarlier ==
    Raw(<<"h","1">>, <<"z","p","/","0">>, NumI(2240), <<"U","S","D">>, NumI(1), NumI(2), <<"A","V","."," ","S","A","N","T","A"," ","F","É"," ","3","2","0","0"," ","-"," ","4">>,
        <<"P","A","L","E","R","M","O">>, NumI(-3845000), NumI(-6496030), <<"A","p","t","o"," ","c","r","e","d","i","t","o">>, <<"2","0">>)

\* another unit that went off line
RawOther ==
    Raw(<<"h","2">>, <<"a","p","/","7">>, NumI(3500), <<"U","S","D">>, NumI(2), NumI(3), <<"G","o","r","r","i","t","i"," ","4","4","0","0">>,
        <<"P","a","l","e","r","m","o"," ","H","o","l","l","y","w","o","o","d">>, NumI(-3846000), NumI(-6497000), <<"C","o","n"," ","c","o","c","h","e","r","a">>, <<"1","0">>)

\* a listing priced in pesos, with text fields and no coordinates
RawPesos ==
    Raw(<<"n","3">>, <<"m","l","/","3">>, NumI(2875000), <<"A","R","S">>, Str(<<"1"," ","m","2">>), Str(<<"M","o","n","o","a","m","b","i","e","n","t","e">>),
        <<"C","a","l","l","e"," ","T","h","a","m","e","s"," ","1","5","1","0"," ","D","p","t","o","."," ","2">>, <<"P","a","l","e","r","m","o"," ","S","o","h","o">>, None, None,
        <<"S","u","c","e","s","i","o","n",","," ","e","s","c","u","c","h","a"," ","o","f","e","r","t","a","s">>, <<"1","0","0">>)

\* a cheaper listing next to RawBase
RawCheap ==
    Raw(<<"n","4">>, <<"z","p","/","4">>, NumI(2170), <<"U","S","D">>, NumI(1), NumI(2), <<"T","h","a","m","e","s"," ","1","5","2","0">>,
        <<"P","a","l","e","r","m","o"," ","S","o","h","o">>, NumI(-3845320), NumI(-6496000), <<"R","e","t","a","s","a","d","o">>, <<"1","3","5">>)

CoreListings == {RawBase, RawAgain, RawPesos, RawCheap}

\* the fields a scraped record may lack or hold as None
OptionalFields ==
    {"precio_original", "moneda", "m2_total", "m2_cubiertos", "ambientes", "direccion",
     "barrio", "lat", "lng", "piso", "titulo", "descripcion", "first_seen"}

\* the record r with the fields of absent removed and those of null set to None
Degrade(r, absent, null) ==
    [k \in DOMAIN r \ absent |-> IF k \in null THEN None ELSE r[k]]

\* RawBase with at most MaxDefects fields absent or None
DegradedListings ==
    UNION {{Degrade(RawBase, d \ n, n) : n \in SUBSET d} :
              d \in {x \in SUBSET OptionalFields : Cardinality(x) \in 1..MaxDefects}}

\* the batches: any sequence of core listings up to MaxBatch, or one degraded listing
Batches ==
    UNION {[1..n -> CoreListings] : n \in 0..MaxBatch} \cup {<<r>> : r \in DegradedListings}

\* a normalized listing that went off line, as detect_relistings expects it
Delisted(raw) == Put(normalize_property(raw, RInt(DOLAR_MEP)).val, "status", Str(<<"d","e","l","i","s","t","e","d">>))

\* historical: absent, empty, or holding the earlier listing of unit X
Pools ==
    {None} \cup {List(SubSeq([i \in 1..2 |-> Delisted(<<RawOther, RawEarlier>>[i])], k, 2)) :
                    k \in 1..3}

Rates == {RInt(DOLAR_MEP), RInt(1000)}

Init ==
    /\ spreadsheet = <<>>
    /\ pc = "start"
    /\ properties \in Batches
    /\ historical \in Pools
    /\ dolar_mep \in Rates
    /\ now = 200
    /\ normalized = <<>>
    /\ relisted = <<>>
    /\ with_microzones = <<>>
    /\ scored = <<>>
    /\ raised = ""
    /\ execution = 1
    /\ first_scored = <<>>
    /\ fn_in = <<>>
    /\ fn_out = <<>>

Next ==
    \/ ReturnEmpty
    \/ Normalize
    \/ DetectRelistings
    \/ SkipRelistings
    \/ CalculateMicrozones
    \/ Score
    \/ RunAgain

Spec == Init /\ [][Next]_vars

-----------------------------------------------------------------------------
(* is_relisting called on its own: fn_in is the call's arguments, fn_out    *)
(* what the loop returns.                                                  *)

MaxPool == 2

\* the pipeline variables, which a call of one function leaves alone
Idle ==
    /\ properties = <<>>
    /\ historical = None
    /\ dolar_mep = RInt(DOLAR_MEP)
    /\ now = 200
    /\ normalized = <<>>
    /\ relisted = <<>>
    /\ with_microzones = <<>>
    /\ scored = <<>>
    /\ raised = ""
    /\ execution = 1
    /\ first_scored = <<>>

\* the record r without the fields in absent
Without(r, absent) == [k \in DOMAIN r \ absent |-> r[k]]

\* unit X as the pipeline normalizes it today
NewFull == normalize_property(RawAgain, RInt(DOLAR_MEP)).val

\* a listing of which only the identity and the normalized address are known
AddressOnly(id, url) ==
    Dict(<< <<"id", Str(id)>>, <<"source", Str(<<"z","o","n","a","p","r","o","p">>)>>, <<"url", Str(url)>>,
            <<"direccion_normalizada", Str(<<"a","v","e","n","i","d","a"," ","s","a","n","t","a"," ","f","e"," ","3","2","0","0"," ","4">>)>> >>)

\* the earlier listing of unit X: same address and features, coordinates
\* within 50 m, a description sharing two words of three
OldTwin == Delisted(RawEarlier)

\* the earlier listing without coordinates and description
OldNear ==
    Put(Without(OldTwin, {"lat", "lng", "descripcion"}), "id", Str(<<"h","3">>))

\* the earlier listing with the coordinates and description of today's
OldExact ==
    LET Like(today) ==
            Update(OldTwin, [id |-> Str(<<"h","4">>), lat |-> today["lat"], lng |-> today["lng"],
                             descripcion |-> today["descripcion"]])
    IN  Like(NewFull)

\* today's listing as it sits in the pool under its own id
OldSelf == Put(NewFull, "status", Str(<<"d","e","l","i","s","t","e","d">>))

\* the earlier listing with today's coordinates and description and a price of 0
OldFree == Update(OldExact, [id |-> Str(<<"h","5">>), precio_usd_mep |-> Num(RZero)])

\* the earlier listing with today's coordinates and description and no price
OldUnpriced == Put(Without(OldExact, {"precio_usd_mep"}), "id", Str(<<"h","6">>))

\* today's listing with a price of 0, and with a negative price
NewFree == Put(NewFull, "precio_usd_mep", Num(RZero))

NewNegative == Put(NewFull, "precio_usd_mep", NumI(-2000))

\* today's listing as the same portal page stored under another id
OldSamePage == Put(OldSelf, "id", Str(<<"h","7">>))

Candidates ==
    {OldTwin, OldNear, OldExact, OldSelf, Delisted(RawOther), AddressOnly(<<"h","9">>, <<"z","p","/","9">>),
     OldFree, OldUnpriced, OldSamePage}

\* the new listings is_relisting is called on
NewListings == {NewFull, AddressOnly(<<"n","9">>, <<"z","p","/","8">>), NewFree, NewNegative}

RelistingInputs ==
    {[new |-> n, pool |-> p] :
        n \in NewListings,
        p \in UNION {[1..k -> Candidates] : k \in 0..MaxPool}}

InitRelisting ==
    /\ Idle
    /\ spreadsheet = <<>>
    /\ pc = "call"
    /\ fn_in \in RelistingInputs
    /\ fn_out = <<>>

\* is_relist, original, delta_pct = is_relisting(new, pool)
CallIsRelisting ==
    /\ pc = "call"
    /\ fn_out' = is_relisting(fn_in.new, fn_in.pool)
    /\ pc' = "done"
    /\ UNCHANGED <<spreadsheet, properties, historical, dolar_mep, now, normalized, relisted,
                   with_microzones, scored, raised, execution, first_scored, fn_in>>

NextRelisting == CallIsRelisting

SpecRelisting == InitRelisting /\ [][NextRelisting]_vars

-----------------------------------------------------------------------------
(* calculate_opportunity_score called on its own *)

MaxKeywords == 3

\* words that hold keywords: three weighted ones, one primary keyword absent
\* from the weight table, one secondary keyword
WordPool == <<<<"S","u","c","e","s","i","o","n">>, <<"r","e","t","a","s","a","d","o">>, <<"U","R","G","E","N","T","E">>, <<"g","a","n","g","a">>, <<"c","u","o","t","a","s">>>>

\* the words of the pool at the positions in S, in pool order
RECURSIVE Phrase(_, _)
Phrase(S, k) ==
    IF k > Len(WordPool) THEN <<>>
    ELSE IF k \in S THEN WordPool[k] \o <<" ">> \o Phrase(S, k + 1)
    ELSE Phrase(S, k + 1)

\* the descriptions of at most n words
Descriptions(n) ==
    {Phrase(S, 1) : S \in {T \in SUBSET DOMAIN WordPool : Cardinality(T) <= n}}

\* a listing as it reaches the scorer
Scorable(price, zscore, descripcion, first_seen, relisting) ==
    Dict(<< <<"id", Str(<<"n","1">>)>>, <<"url", Str(<<"z","p","/","1">>)>>,
            <<"titulo", Str(<<"D","e","p","a","r","t","a","m","e","n","t","o"," ","e","n"," ","v","e","n","t","a">>)>>,
            <<"precio_usd_mep", price>>, <<"m2_total", NumI(1)>>,
            <<"barrio", Str(<<"P","a","l","e","r","m","o"," ","S","o","h","o">>)>>, <<"zscore", zscore>>,
            <<"descripcion", Str(descripcion)>>, <<"first_seen", Str(first_seen)>>,
            <<"status", relisting[1]>>, <<"price_delta_pct", relisting[2]>> >>)

\* 37.5%, 25% and 12.5% under the 3200 of Palermo Soho, above it, and unpriced
ScorerPrices == {NumI(2000), NumI(2400), NumI(2800), NumI(3500), NumI(0)}

\* z = -2, -1.2, -0.7, 0
ScorerZScores ==
    {Root(-1, RInt(4)), Root(-1, Rat(144, 100)), Root(-1, Rat(49, 100)), RootZero}

\* 95, 65, 35 and 0 days before the clock
ScorerFirstSeen == {<<"1","0","5">>, <<"1","3","5">>, <<"1","6","5">>, <<"2","0","0">>}

ScorerRelistings ==
    { <<Str(<<"a","c","t","i","v","e">>), None>>, <<Str(<<"r","e","l","i","s","t","e","d">>), NumI(-12)>>,
      <<Str(<<"r","e","l","i","s","t","e","d">>), NumI(-7)>>, <<Str(<<"r","e","l","i","s","t","e","d">>), None>> }

\* every tier of every contribution with at most one word, and the extremes
\* of each contribution with up to MaxKeywords words
ScorerInputs ==
    {Scorable(price, zscore, descripcion, first_seen, relisting) :
        price \in ScorerPrices, zscore \in ScorerZScores, descripcion \in Descriptions(1),
        first_seen \in ScorerFirstSeen, relisting \in ScorerRelistings}
    \cup
    {Scorable(price, zscore, descripcion, first_seen, relisting) :
        price \in {NumI(2000), NumI(3500)}, zscore \in {Root(-1, RInt(4)), RootZero},
        descripcion \in Descriptions(MaxKeywords), first_seen \in {<<"1","0","5">>, <<"2","0","0">>},
        relisting \in { <<Str(<<"a","c","t","i","v","e">>), None>>, <<Str(<<"r","e","l","i","s","t","e","d">>), NumI(-12)>> }}

InitScorer ==
    /\ Idle
    /\ spreadsheet = <<>>
    /\ pc = "call"
    /\ fn_in \in ScorerInputs
    /\ fn_out = <<>>

\* result = calculate_opportunity_score(property_data)
CallScore ==
    /\ pc = "call"
    /\ \E r \in calculate_opportunity_score(fn_in, now) : fn_out' = r
    /\ pc' = "done"
    /\ UNCHANGED <<spreadsheet, properties, historical, dolar_mep, now, normalized, relisted,
                   with_microzones, scored, raised, execution, first_scored, fn_in>>

NextScorer == CallScore

SpecScorer == InitScorer /\ [][NextScorer]_vars

-----------------------------------------------------------------------------
(* normalize_property called on a raw record, and again on its own result *)

\* a raw record with the given price, areas, rooms and address
RawWith(price, m2_total, m2_cubiertos, ambientes, direccion) ==
    Update(RawBase, [precio_original |-> price[1], moneda |-> price[2],
                     m2_total |-> m2_total, m2_cubiertos |-> m2_cubiertos,
                     ambientes |-> ambientes, direccion |-> Str(direccion)])

RawPrices == { <<NumI(3000), Str(<<"U","S","D">>)>>, <<NumI(2875000), Str(<<"A","R","S">>)>>,
               <<NumI(3000), Str(<<"E","U","R">>)>>, <<NumI(-3000), Str(<<"U","S","D">>)>> }

RawAreas == {NumI(1), NumI(0), Str(<<"1"," ","m","2">>), Str(<<"1",",","5"," ","m","t","s">>), Str(<<"a"," ","e","s","t","r","e","n","a","r">>)}

RawRooms == {NumI(2), Str(<<"M","o","n","o","a","m","b","i","e","n","t","e">>), Str(<<"3"," ","a","m","b">>), Str(<<"D","o","s"," ","a","m","b","i","e","n","t","e","s">>)}

RawAddresses == {<<"A","v","."," ","S","a","n","t","a"," ","F","e"," ","3","2","0","0",","," ","4">>, <<"C","a","l","l","e"," ","T","h","a","m","e","s"," ","1","5","1","0"," ","D","p","t","o","."," ","2">>, <<>>}

NormalizerInputs ==
    {[data |-> d, mep |-> m] :
        d \in {RawWith(price, m2_total, m2_cubiertos, ambientes, direccion) :
                  price \in RawPrices, m2_total \in RawAreas,
                  m2_cubiertos \in {NumI(2), NumI(0), Str(<<"2"," ","m","2">>)},
                  ambientes \in RawRooms, direccion \in RawAddresses}
              \cup DegradedListings,
        m \in Rates \cup {RZero}}

InitNormalizer ==
    /\ Idle
    /\ spreadsheet = <<>>
    /\ pc = "call"
    /\ fn_in \in NormalizerInputs
    /\ fn_out = <<>>

\* once = normalize_property(data, dolar_mep)
CallNormalize ==
    /\ pc = "call"
    /\ fn_out' = <<normalize_property(fn_in.data, fn_in.mep)>>
    /\ pc' = "once"
    /\ UNCHANGED <<spreadsheet, properties, historical, dolar_mep, now, normalized, relisted,
                   with_microzones, scored, raised, execution, first_scored, fn_in>>

\* twice = normalize_property(once, dolar_mep)
CallNormalizeAgain ==
    /\ pc = "once"
    /\ fn_out[1].ok
    /\ fn_out' = Append(fn_out, normalize_property(fn_out[1].val, fn_in.mep))
    /\ pc' = "twice"
    /\ UNCHANGED <<spreadsheet, properties, historical, dolar_mep, now, normalized, relisted,
                   with_microzones, scored, raised, execution, first_scored, fn_in>>

NextNormalizer ==
    \/ CallNormalize
    \/ CallNormalizeAgain

SpecNormalizer == InitNormalizer /\ [][NextNormalizer]_vars

-----------------------------------------------------------------------------
(* calculate_all_microzones on its own: one call on a batch of normalized
   listings *)

\* the longest batch
MaxZone == 3

\* a raw record as normalize_property leaves it at the default rate
Zoned(raw) == normalize_property(raw, RInt(DOLAR_MEP)).val

\* the listing of RawBase, 3000 USD for 1 m2 in Palermo Soho
ZoneCentre == Zoned(RawBase)

\* a listing exactly 400 m north of ZoneCentre, in another neighbourhood
ZoneEdge ==
    Zoned(Raw(<<"z","2">>, <<"z","p","/","1","2">>, NumI(2000), <<"U","S","D">>, NumI(1), NumI(2), <<"T","h","a","m","e","s"," ","1","9","0","0">>,
              <<"P","a","l","e","r","m","o">>, NumI(-3844900), NumI(-6496000), <<"A","l"," ","f","r","e","n","t","e">>, <<"1","5","0">>))

\* a listing 401 m south of ZoneCentre
ZoneBeyond ==
    Zoned(Raw(<<"z","3">>, <<"z","p","/","1","3">>, NumI(2500), <<"U","S","D">>, NumI(1), NumI(2), <<"T","h","a","m","e","s"," ","1","1","0","0">>,
              <<"P","a","l","e","r","m","o"," ","S","o","h","o">>, NumI(-3845701), NumI(-6496000), <<"C","o","n","t","r","a","f","r","e","n","t","e">>, <<"1","5","0">>))

\* the listing of RawPesos: no coordinates, Palermo Soho
ZoneNoCoords == Zoned(RawPesos)

\* a listing without coordinates whose neighbourhood differs in case only
ZoneNoCoordsLower ==
    Zoned(Raw(<<"z","5">>, <<"m","l","/","1","5">>, NumI(2800), <<"U","S","D">>, NumI(1), NumI(2), <<"T","h","a","m","e","s"," ","1","5","3","0">>,
              <<"p","a","l","e","r","m","o"," ","s","o","h","o">>, None, None, <<"C","o","n"," ","b","a","l","c","o","n">>, <<"1","5","0">>))

\* a listing 20 m from ZoneCentre with a price and no area: m2_total is 0 and
\* so is precio_m2
ZoneNoArea == Zoned(Update(RawCheap, [m2_total |-> NumI(0), m2_cubiertos |-> NumI(0)]))

\* a listing 10 m from ZoneCentre at the same price
ZoneSamePrice ==
    Zoned(Raw(<<"z","7">>, <<"z","p","/","1","7">>, NumI(3000), <<"U","S","D">>, NumI(1), NumI(2), <<"T","h","a","m","e","s"," ","1","5","1","0">>,
              <<"P","a","l","e","r","m","o"," ","S","o","h","o">>, NumI(-3845300), NumI(-6496010), <<"L","u","m","i","n","o","s","o">>, <<"1","5","0">>))

MicrozoneListings ==
    {ZoneCentre, ZoneEdge, ZoneBeyond, ZoneNoCoords, ZoneNoCoordsLower, ZoneNoArea,
     ZoneSamePrice}

\* the batches of one to MaxZone listings
MicrozoneInputs ==
    UNION {[1..n -> MicrozoneListings] : n \in 1..MaxZone}

InitMicrozones ==
    /\ Idle
    /\ spreadsheet = <<>>
    /\ pc = "call"
    /\ fn_in \in MicrozoneInputs
    /\ fn_out = <<>>

\* fn_out = calculate_all_microzones(fn_in)
CallMicrozones ==
    /\ pc = "call"
    /\ fn_out' = calculate_all_microzones(fn_in, MICROZONE_RADIUS_METERS)
    /\ pc' = "done"
    /\ UNCHANGED <<spreadsheet, properties, historical, dolar_mep, now, normalized, relisted,
                   with_microzones, scored, raised, execution, first_scored, fn_in>>

NextMicrozones == CallMicrozones

SpecMicrozones == InitMicrozones /\ [][NextMicrozones]_vars

-----------------------------------------------------------------------------
(* detect_relistings on its own: one call on a batch of normalized listings
   and a pool *)

\* the batches of one to MaxBatch new listings, each with a pool of up to
\* MaxPool candidates
DetectInputs ==
    {[props |-> s, pool |-> p] :
        s \in UNION {[1..n -> {NewFull, NewFree, AddressOnly(<<"n","9">>, <<"z","p","/","8">>)}] :
                        n \in 1..MaxBatch},
        p \in UNION {[1..k -> Candidates] : k \in 0..MaxPool}}

InitDetect ==
    /\ Idle
    /\ spreadsheet = <<>>
    /\ pc = "call"
    /\ fn_in \in DetectInputs
    /\ fn_out = <<>>

\* fn_out = detect_relistings(props, pool)
CallDetect ==
    /\ pc = "call"
    /\ fn_out' = detect_relistings(fn_in.props, fn_in.pool)
    /\ pc' = "done"
    /\ UNCHANGED <<spreadsheet, properties, historical, dolar_mep, now, normalized, relisted,
                   with_microzones, scored, raised, execution, first_scored, fn_in>>

NextDetect == CallDetect

SpecDetect == InitDetect /\ [][NextDetect]_vars

-----------------------------------------------------------------------------
(* TelegramAlerts.send_opportunities_batch: fn_in holds the arguments, fn_out
   the alerts attempted so far, each with what send_opportunity_alert returned *)

\* the longest batch of records handed to send_opportunities_batch
MaxAlerts == 3

\* p.get('opportunity_score', 0) >= min_score and p.get('status') == 'active'
IsOpportunity(p, min_score) ==
    /\ RLe(min_score, GetOr(p, "opportunity_score", NumI(0)).num)
    /\ Get(p, "status") = Str(<<"a","c","t","i","v","e">>)

\* opportunities.sort(key=score, reverse=True) done by insertion: x goes behind
\* the records whose score is at least its own, so that equal scores keep
\* their order (the sort is stable)
RECURSIVE InsertByScore(_, _)
InsertByScore(x, sorted) ==
    IF sorted = <<>> THEN <<x>>
    ELSE IF RLe(GetOr(x, "opportunity_score", NumI(0)).num,
                GetOr(Head(sorted), "opportunity_score", NumI(0)).num)
         THEN <<Head(sorted)>> \o InsertByScore(x, Tail(sorted))
         ELSE <<x>> \o sorted

RECURSIVE SortByScore(_)
SortByScore(s) ==
    IF s = <<>> THEN <<>>
    ELSE InsertByScore(s[Len(s)], SortByScore(SubSeq(s, 1, Len(s) - 1)))

\* the records of every status at or above the threshold: the fault C19's
\* formula must detect
OpportunitiesOfAnyStatus(records, min_score) ==
    LET Threshold(m) ==
            SortByScore(SelectIdx(records,
                {i \in DOMAIN records :
                    RLe(m, GetOr(records[i], "opportunity_score", NumI(0)).num)}))
    IN  Threshold(IF IsNone(min_score) THEN RInt(OPPORTUNITY_SCORE_THRESHOLD)
                  ELSE min_score.num)

\* the list opportunities of send_opportunities_batch, filtered and sorted
Opportunities(records, min_score) ==
    LET Threshold(m) ==
            SortByScore(SelectIdx(records,
                {i \in DOMAIN records : IsOpportunity(records[i], m)}))
    IN  Threshold(IF IsNone(min_score) THEN RInt(OPPORTUNITY_SCORE_THRESHOLD)
                  ELSE min_score.num)

\* a scored record as the alerts see it
Alertable(id, score, status) ==
    Update(ZoneCentre, [id |-> Str(id), status |-> Str(status), opportunity_score |-> score])

AlertListings ==
    {Alertable(<<"a","1">>, NumI(20), <<"a","c","t","i","v","e">>), Alertable(<<"a","2">>, NumI(30), <<"a","c","t","i","v","e">>),
     Alertable(<<"a","3">>, NumI(45), <<"a","c","t","i","v","e">>), Alertable(<<"a","4">>, NumI(45), <<"a","c","t","i","v","e">>),
     Alertable(<<"a","5">>, NumI(80), <<"a","c","t","i","v","e">>), Alertable(<<"a","6">>, NumI(80), <<"r","e","l","i","s","t","e","d">>),
     Alertable(<<"a","7">>, NumI(90), <<"d","e","l","i","s","t","e","d">>), Put(ZoneCentre, "id", Str(<<"a","8">>))}

AlertInputs ==
    {[records |-> s, min_score |-> m] :
        s \in UNION {[1..n -> AlertListings] : n \in 0..MaxAlerts},
        m \in {None, NumI(45)}}

InitAlerts ==
    /\ Idle
    /\ spreadsheet = <<>>
    /\ pc = "call"
    /\ fn_in \in AlertInputs
    /\ fn_out = <<>>

\* the filter and the sort; return when there is nothing to alert
SelectOpportunities ==
    /\ pc = "call"
    /\ pc' = IF Opportunities(fn_in.records, fn_in.min_score) = <<>> THEN "done" ELSE "sending"
    /\ UNCHANGED <<spreadsheet, properties, historical, dolar_mep, now, normalized, relisted,
                   with_microzones, scored, raised, execution, first_scored, fn_in, fn_out>>

\* one turn of the loop: await self.send_opportunity_alert(prop), which returns
\* True, or False when the message could not be sent
SendAlert ==
    /\ pc = "sending"
    /\ \E opportunities \in {Opportunities(fn_in.records, fn_in.min_score)} :
          /\ \E delivered \in BOOLEAN :
                fn_out' = Append(fn_out, [prop |-> opportunities[Len(fn_out) + 1],
                                          delivered |-> delivered])
          /\ pc' = IF Len(fn_out) + 1 = Len(opportunities) THEN "done" ELSE "sending"
    /\ UNCHANGED <<spreadsheet, properties, historical, dolar_mep, now, normalized, relisted,
                   with_microzones, scored, raised, execution, first_scored, fn_in>>

NextAlerts ==
    \/ SelectOpportunities
    \/ SendAlert

SpecAlerts == InitAlerts /\ [][NextAlerts]_vars

-----------------------------------------------------------------------------
(* GoogleSheetsDB: the properties sheet.  A worksheet is its header row and *)
(* the rows under it; sheet row 1 is the header, sheet row n + 1 is rows[n]. *)
(* A cell holds the value that was written to it.                           *)

MaxUpsert == 2

SHEET_PROPIEDADES == "propiedades"

\* _get_headers()
get_headers ==
    <<"id", "source", "url", "titulo", "precio_original", "moneda",
      "precio_usd_mep", "expensas", "m2_total", "m2_cubiertos",
      "ambientes", "piso", "direccion", "barrio", "lat", "lng",
      "inmobiliaria", "descripcion", "first_seen", "last_seen",
      "status", "opportunity_score", "keywords_detected", "zscore",
      "microzone_mean", "microzone_count", "days_online", "is_opportunity",
      "original_id", "price_delta_pct">>

\* _get_or_create_sheet(sheet_name, headers): the spreadsheet with the sheet in it
get_or_create_sheet(sheets, sheet_name, headers) ==
    IF sheet_name \in DOMAIN sheets THEN sheets
    ELSE (sheet_name :> [header |-> headers, rows |-> <<>>]) @@ sheets

\* worksheet.get_all_records(): one dict per row, keyed by the header row
get_all_records(worksheet) ==
    Tuple([i \in DOMAIN worksheet.rows |->
              [h \in Range(worksheet.header) |->
                  worksheet.rows[i][IndexOf(worksheet.header, h)]]])

\* existing_ids = {r['id']: i+2 for i, r in enumerate(existing)}: the sheet row
\* of each stored id, the last one when an id is stored in several rows
existing_ids(existing) ==
    [id \in {existing[i]["id"] : i \in DOMAIN existing} |->
        1 + (CHOOSE i \in DOMAIN existing :
                /\ existing[i]["id"] = id
                /\ \A j \in DOMAIN existing : existing[j]["id"] = id => j <= i)]

\* row_data = [prop.get(h, '') for h in headers]
row_data(prop, headers) ==
    Tuple([c \in DOMAIN headers |-> GetOr(prop, headers[c], Str(<<>>))])

\* the list updates: one range A{row_num}:{last_col}{row_num}, which is the
\* whole of sheet row row_num, for each record whose id is stored
Updates(props, ids, headers) ==
    LET Ranges(found) ==
            Tuple([k \in DOMAIN found |->
                      [row_num |-> ids[found[k]["id"]],
                       values |-> row_data(found[k], headers)]])
    IN  Ranges(SelectIdx(props, {k \in DOMAIN props : Get(props[k], "id") \in DOMAIN ids}))

\* the list new_rows: a row for each record whose id is not stored
NewRows(props, ids, headers) ==
    LET Rows(fresh) == Tuple([k \in DOMAIN fresh |-> row_data(fresh[k], headers)])
    IN  Rows(SelectIdx(props, {k \in DOMAIN props : Get(props[k], "id") \notin DOMAIN ids}))

\* worksheet.batch_update(updates): the ranges are written in order
RECURSIVE batch_update(_, _)
batch_update(worksheet, updates) ==
    IF updates = <<>> THEN worksheet
    ELSE batch_update([worksheet EXCEPT !.rows[Head(updates).row_num - 1] = Head(updates).values],
                      Tail(updates))

\* worksheet.append_rows(new_rows): under the last row of the table
append_rows(worksheet, new_rows) ==
    [worksheet EXCEPT !.rows = @ \o new_rows]

\* every record of the batch appended as a new row: the fault C20's formula
\* must detect
upsert_append_only(sheets, props) ==
    IF props = <<>> THEN sheets
    ELSE [get_or_create_sheet(sheets, SHEET_PROPIEDADES, get_headers)
            EXCEPT ![SHEET_PROPIEDADES] = append_rows(@, NewRows(props, <<>>, get_headers))]

\* upsert_properties(properties): the spreadsheet after the call
upsert_properties(sheets, props) ==
    IF props = <<>> THEN sheets
    ELSE [get_or_create_sheet(sheets, SHEET_PROPIEDADES, get_headers)
            EXCEPT ![SHEET_PROPIEDADES] =
                append_rows(
                    batch_update(@, Updates(props, existing_ids(get_all_records(@)), get_headers)),
                    NewRows(props, existing_ids(get_all_records(@)), get_headers))]

\* processed records to save: u1 in two versions, u2, u3 and a record with no id
UpsertListings ==
    {Alertable(<<"u","1">>, NumI(20), <<"a","c","t","i","v","e">>), Alertable(<<"u","1">>, NumI(80), <<"a","c","t","i","v","e">>),
     Alertable(<<"u","2">>, NumI(45), <<"r","e","l","i","s","t","e","d">>), Alertable(<<"u","3">>, NumI(45), <<"a","c","t","i","v","e">>),
     Without(ZoneCentre, {"id"})}

UpsertBatches == UNION {[1..n -> UpsertListings] : n \in 0..MaxUpsert}

\* stored: the batch an earlier call saved; properties: the batch of this call
UpsertInputs == [stored : UpsertBatches, properties : UpsertBatches]

InitSheet ==
    /\ Idle
    /\ pc = "call"
    /\ fn_in \in UpsertInputs
    /\ spreadsheet = upsert_properties(<<>>, fn_in.stored)
    /\ fn_out = <<>>

Upsert ==
    /\ pc = "call"
    /\ spreadsheet' = upsert_properties(spreadsheet, fn_in.properties)
    /\ fn_out' = <<None>>
    /\ pc' = "done"
    /\ UNCHANGED <<properties, historical, dolar_mep, now, normalized, relisted,
                   with_microzones, scored, raised, execution, first_scored, fn_in>>

NextSheet ==
    \/ Upsert

SpecSheet == InitSheet /\ [][NextSheet]_vars

-----------------------------------------------------------------------------
(* normalize_rooms called on its own *)

MaxRoomWords == 2

\* pieces of the text of a listing's room field
RoomPhrases ==
    {<<"3"," ","a","m","b">>, <<"M","o","n","o","a","m","b","i","e","n","t","e">>, <<"d","o","s">>, <<"2"," ","d","o","r","m","i","t","o","r","i","o","s">>, <<"c","a","s","a">>, <<"s","i","e","t","e">>,
     <<"7">>, <<"u","n","a"," ","h","a","b","i","t","a","c","i","o","n">>}

\* the phrases joined by single spaces
RECURSIVE JoinPhrases(_)
JoinPhrases(ps) ==
    IF ps = <<>> THEN <<>>
    ELSE IF Len(ps) = 1 THEN ps[1]
    ELSE ps[1] \o <<" ">> \o JoinPhrases(Tail(ps))

RoomTexts == {JoinPhrases(ps) : ps \in UNION {[1..n -> RoomPhrases] : n \in 0..MaxRoomWords}}

InitRooms ==
    /\ Idle
    /\ spreadsheet = <<>>
    /\ pc = "call"
    /\ fn_in \in RoomTexts
    /\ fn_out = <<>>

\* fn_out = <<normalize_rooms(text)>>
CallRooms ==
    /\ pc = "call"
    /\ fn_out' = <<normalize_rooms(fn_in)>>
    /\ pc' = "done"
    /\ UNCHANGED <<spreadsheet, properties, historical, dolar_mep, now, normalized, relisted,
                   with_microzones, scored, raised, execution, first_scored, fn_in>>

NextRooms == CallRooms

SpecRooms == InitRooms /\ [][NextRooms]_vars

-----------------------------------------------------------------------------
(* calculate_price_score called on its own *)

\* a listing of 1 m2, so that its price is its price per m2; barrio None
\* stands for a listing without the field
Priced(price, m2, barrio) ==
    IF IsNone(barrio)
    THEN Dict(<< <<"id", Str(<<"n","1">>)>>, <<"precio_usd_mep", price>>, <<"m2_total", m2>> >>)
    ELSE Dict(<< <<"id", Str(<<"n","1">>)>>, <<"precio_usd_mep", price>>, <<"m2_total", m2>>,
                 <<"barrio", barrio>> >>)

\* the prices at 30, 20, 15, 10 and 5% under the references 3100, 3200 and
\* 4000, prices one above a tier, a price above the reference, 0 and -1
TierPrices ==
    {NumI(2170), NumI(2171), NumI(2480), NumI(2635), NumI(2790), NumI(2945), NumI(2946),
     NumI(2240), NumI(3040), NumI(2800), NumI(3800), NumI(3500), NumI(0), NumI(-1)}

PriceInputs ==
    {Priced(price, m2, barrio) :
        price \in TierPrices, m2 \in {NumI(1), NumI(0)},
        barrio \in {Str(<<"P","a","l","e","r","m","o"," ","S","o","h","o">>), Str(<<"P","A","L","E","R","M","O"," ","C","H","I","C","O">>), Str(<<"B","e","l","g","r","a","n","o">>), None}}

InitPrice ==
    /\ Idle
    /\ spreadsheet = <<>>
    /\ pc = "call"
    /\ fn_in \in PriceInputs
    /\ fn_out = <<>>

\* score, descuento_pct, razon = calculate_price_score(property_data)
CallPriceScore ==
    /\ pc = "call"
    /\ fn_out' = calculate_price_score(fn_in)
    /\ pc' = "done"
    /\ UNCHANGED <<spreadsheet, properties, historical, dolar_mep, now, normalized, relisted,
                   with_microzones, scored, raised, execution, first_scored, fn_in>>

NextPrice == CallPriceScore

SpecPrice == InitPrice /\ [][NextPrice]_vars

-----------------------------------------------------------------------------
(* BaseScraper.safe_navigate: fn_in holds url and retries, fn_out the loop    *)
(* variable attempt, the log of what the call did (page.goto and its        *)
(* outcome, the sleeps and their seconds) and the value returned.           *)

MaxRetries == 4

REQUEST_DELAY_MIN == 3

REQUEST_DELAY_MAX == 8

MAX_RETRIES == 3

\* retries, MAX_RETRIES when the caller gives none
Retries(args) == IF "retries" \in DOMAIN args THEN args.retries ELSE MAX_RETRIES

NavigateInputs ==
    [url : {<<"z","p","/","1">>, <<"z","p","/","2">>}, retries : 0..MaxRetries] \cup [url : {<<"z","p","/","1">>, <<"z","p","/","2">>}]

InitNavigate ==
    /\ Idle
    /\ spreadsheet = <<>>
    /\ pc = "for"
    /\ fn_in \in NavigateInputs
    /\ fn_out = [attempt |-> 0, log |-> <<>>, returned |-> None]

\* the backoff sleep after every failed attempt, the last one too: the fault
\* C30's formula must detect
BackoffAlways(attempt, retries) == TRUE

\* if attempt < retries - 1
BackoffDue(attempt, retries) == attempt < retries - 1

\* for attempt in range(retries): await self.page.goto(url, ...), which returns
\* or raises
Goto ==
    /\ pc = "for"
    /\ fn_out.attempt < Retries(fn_in)
    /\ \E loaded \in BOOLEAN :
          /\ fn_out' = [fn_out EXCEPT !.log = Append(@, [goto |-> fn_in.url, loaded |-> loaded])]
          /\ pc' = IF loaded THEN "try" ELSE "except"
    /\ UNCHANGED <<spreadsheet, properties, historical, dolar_mep, now, normalized, relisted,
                   with_microzones, scored, raised, execution, first_scored, fn_in>>

\* await self.random_delay(); return True
RandomDelay ==
    /\ pc = "try"
    /\ \E delay \in {REQUEST_DELAY_MIN, REQUEST_DELAY_MAX} :
          fn_out' = [fn_out EXCEPT !.log = Append(@, [random_delay |-> delay]),
                                   !.returned = Bool(TRUE)]
    /\ pc' = "done"
    /\ UNCHANGED <<spreadsheet, properties, historical, dolar_mep, now, normalized, relisted,
                   with_microzones, scored, raised, execution, first_scored, fn_in>>

\* except Exception: the backoff sleep when another attempt follows, then the
\* next turn of the loop
Backoff ==
    /\ pc = "except"
    /\ fn_out' = [fn_out EXCEPT
                     !.log = IF BackoffDue(fn_out.attempt, Retries(fn_in))
                             THEN Append(@, [sleep |-> 5 * (fn_out.attempt + 1)])
                             ELSE @,
                     !.attempt = @ + 1]
    /\ pc' = "for"
    /\ UNCHANGED <<spreadsheet, properties, historical, dolar_mep, now, normalized, relisted,
                   with_microzones, scored, raised, execution, first_scored, fn_in>>

\* the loop is exhausted: return False
ReturnFalse ==
    /\ pc = "for"
    /\ fn_out.attempt >= Retries(fn_in)
    /\ fn_out' = [fn_out EXCEPT !.returned = Bool(FALSE)]
    /\ pc' = "done"
    /\ UNCHANGED <<spreadsheet, properties, historical, dolar_mep, now, normalized, relisted,
                   with_microzones, scored, raised, execution, first_scored, fn_in>>

NextNavigate ==
    \/ Goto
    \/ RandomDelay
    \/ Backoff
    \/ ReturnFalse

\* page.goto has a timeout and the sleeps end, so a call that can take a step
\* takes it
SpecNavigate == InitNavigate /\ [][NextNavigate]_vars /\ WF_vars(NextNavigate)

-----------------------------------------------------------------------------
(* main.py: main_async run after run on one spreadsheet.  execution is the  *)
(* number of the run and now its day; first_scored keeps what the first run *)
(* processed.                                                               *)

MaxRuns == 5

SHEET_HISTORIAL == "historial_precios"

\* get_historical_properties(): the rows of the history sheet whose status is
\* 'delisted'
get_historical_properties(sheets) ==
    LET Kept(records) ==
            SelectIdx(records, {i \in DOMAIN records :
                                   Get(records[i], "status") = Str(<<"d","e","l","i","s","t","e","d">>)})
    IN  Kept(get_all_records(get_or_create_sheet(sheets, SHEET_HISTORIAL,
                                                 get_headers)[SHEET_HISTORIAL]))

\* the status cell of every row whose id is in property_ids set to 'delisted'
StatusUpdated(worksheet, records, property_ids) ==
    [worksheet EXCEPT !.rows =
        Tuple([i \in DOMAIN worksheet.rows |->
                  IF records[i]["id"] \in property_ids
                  THEN [worksheet.rows[i] EXCEPT ![IndexOf(worksheet.header, "status")] =
                            Str(<<"d","e","l","i","s","t","e","d">>)]
                  ELSE worksheet.rows[i]])]

\* mark_delisted(property_ids): records is read before the status cells are
\* written, and the rows copied to the history sheet are taken from records
mark_delisted(sheets, property_ids) ==
    LET Copied(records) ==
            LET Marked(delisted) ==
                    [get_or_create_sheet(sheets, SHEET_HISTORIAL, get_headers) EXCEPT
                        ![SHEET_PROPIEDADES] = StatusUpdated(@, records, property_ids),
                        ![SHEET_HISTORIAL] =
                            append_rows(@, Tuple([k \in DOMAIN delisted |->
                                                     row_data(delisted[k], get_headers)]))]
            IN  Marked(SelectIdx(records, {i \in DOMAIN records :
                                              records[i]["id"] \in property_ids}))
    IN  IF property_ids = {} \/ "status" \notin Range(sheets[SHEET_PROPIEDADES].header)
        THEN sheets
        ELSE Copied(get_all_records(sheets[SHEET_PROPIEDADES]))

\* n in decimal digits
RECURSIVE ToDigits(_)
ToDigits(n) == IF n < 10 THEN <<Digits[n + 1]>> ELSE ToDigits(n \div 10) \o <<Digits[(n % 10) + 1]>>

\* BaseScraper.scrape: the records extracted, stamped with the time of the
\* scrape and the status active
Scraped(found, clock) ==
    Tuple([i \in DOMAIN found |->
              Update(found[i], [first_seen |-> Str(ToDigits(clock)),
                                last_seen |-> Str(ToDigits(clock)),
                                status |-> Str(<<"a","c","t","i","v","e">>)])])

\* what the portals can show on a day: unit X and another unit, the other
\* unit alone, unit X under a new listing beside the other unit, nothing
Portals ==
    {<<RawEarlier, RawOther>>, <<RawOther>>, <<RawAgain, RawOther>>, <<>>}

InitRuns ==
    /\ Idle
    /\ spreadsheet = <<>>
    /\ pc = "main"
    /\ fn_in = <<>>
    /\ fn_out = <<>>

\* historical = db.get_historical_properties()
GetHistorical ==
    /\ pc = "main"
    /\ historical' = List(get_historical_properties(spreadsheet))
    /\ spreadsheet' = get_or_create_sheet(spreadsheet, SHEET_HISTORIAL, get_headers)
    /\ pc' = "scrape"
    /\ UNCHANGED <<properties, dolar_mep, now, normalized, relisted, with_microzones,
                   scored, raised, execution, first_scored, fn_in, fn_out>>

\* properties = await run_scraper(...); if not properties: return; else
\* process_properties(properties, historical) is called
Scrape ==
    /\ pc = "scrape"
    /\ \E found \in Portals :
          /\ properties' = Scraped(found, now)
          /\ pc' = IF found = <<>> THEN "exit" ELSE "start"
    /\ UNCHANGED <<spreadsheet, historical, dolar_mep, now, normalized, relisted,
                   with_microzones, scored, raised, execution, first_scored, fn_in, fn_out>>

\* db.upsert_properties(processed)
Save ==
    /\ pc = "returned"
    /\ spreadsheet' = upsert_properties(spreadsheet, scored)
    /\ pc' = "saved"
    /\ UNCHANGED <<properties, historical, dolar_mep, now, normalized, relisted,
                   with_microzones, scored, raised, execution, first_scored, fn_in, fn_out>>

\* the ids of the batch that are stored, taken for the ids that went off
\* line: the fault C21's formula must detect
DelistedIdsOfBatch(existing, processed) ==
    {existing[i]["id"] : i \in DOMAIN existing}
        \cap {processed[k]["id"] : k \in DOMAIN processed}

\* delisted_ids = existing_ids - scraped_ids
DelistedIds(existing, processed) ==
    {existing[i]["id"] : i \in DOMAIN existing}
        \ {processed[k]["id"] : k \in DOMAIN processed}

\* if delisted_ids: db.mark_delisted(list(delisted_ids)); the alerts and the
\* summary, which leave the spreadsheet as it is, end the run
MarkDelisted ==
    /\ pc = "saved"
    /\ spreadsheet' =
          mark_delisted(spreadsheet,
                        DelistedIds(get_all_records(spreadsheet[SHEET_PROPIEDADES]), scored))
    /\ pc' = "exit"
    /\ UNCHANGED <<properties, historical, dolar_mep, now, normalized, relisted,
                   with_microzones, scored, raised, execution, first_scored, fn_in, fn_out>>

\* the program is started again on a later day
NextRun ==
    /\ pc \in {"exit", "raised"}
    /\ execution < MaxRuns
    /\ execution' = execution + 1
    /\ now' = now + 1
    /\ first_scored' = IF execution = 1 THEN scored ELSE first_scored
    /\ pc' = "main"
    /\ properties' = <<>>
    /\ normalized' = <<>>
    /\ relisted' = <<>>
    /\ with_microzones' = <<>>
    /\ scored' = <<>>
    /\ raised' = ""
    /\ UNCHANGED <<spreadsheet, historical, dolar_mep, fn_in, fn_out>>

NextRuns ==
    \/ GetHistorical
    \/ Scrape
    \/ Normalize
    \/ DetectRelistings
    \/ SkipRelistings
    \/ CalculateMicrozones
    \/ Score
    \/ Save
    \/ MarkDelisted
    \/ NextRun

SpecRuns == InitRuns /\ [][NextRuns]_vars

-----------------------------------------------------------------------------
(* Claims about is_relisting, under SpecRelisting *)

\* r has a normalized address and no field of the other three evidence groups
OnlyAddress(r) ==
    /\ Truthy(Get(r, "direccion_normalizada"))
    /\ \A k \in {"lat", "lng", "m2_total", "ambientes", "piso", "barrio", "descripcion"} :
          IsNone(Get(r, k))

\* the call is on one candidate that shares the new listing's address, the two
\* having different id and url and nothing but the address
C1_AddressOnlyPairCalled ==
    /\ pc = "done"
    /\ Len(fn_in.pool) = 1
    /\ OnlyAddress(fn_in.new)
    /\ OnlyAddress(fn_in.pool[1])
    /\ fn_in.new["direccion_normalizada"] = fn_in.pool[1]["direccion_normalizada"]
    /\ ~Skipped(fn_in.new, fn_in.pool[1])

\* C1: the confidence is earned / applicableMax, the maximum counting only the
\* evidence groups whose fields are present on both listings, so a new listing
\* and a candidate with different id and url, the same non-empty normalized
\* address and nothing else get confidence 1.0 and is_relisting returns true.
C1_AddressOnlyPairIsRelisting ==
    C1_AddressOnlyPairCalled =>
        /\ Confidence(fn_in.new, fn_in.pool[1]) = Rat(1, 1)
        /\ fn_out.is_relist

\* the candidate old is not skipped and its confidence is at least 0.6
Qualifies(new, old) ==
    ~Skipped(new, old) /\ RLe(CONFIDENCE_THRESHOLD, Confidence(new, old))

\* C2: is_relisting returns the first candidate, in pool order, whose
\* confidence is at least 0.6, and examines no candidate after it, whatever
\* the confidence of the later ones; with no such candidate it returns false.
C2_FirstMatchWins ==
    pc = "done" =>
        IF \E j \in DOMAIN fn_in.pool : Qualifies(fn_in.new, fn_in.pool[j])
        THEN /\ fn_out.is_relist
             /\ fn_out.examined \in DOMAIN fn_in.pool
             /\ Qualifies(fn_in.new, fn_in.pool[fn_out.examined])
             /\ \A j \in 1..(fn_out.examined - 1) : ~Qualifies(fn_in.new, fn_in.pool[j])
             /\ fn_out.original = fn_in.pool[fn_out.examined]
        ELSE ~fn_out.is_relist /\ fn_out.examined = Len(fn_in.pool)

\* a call returned the first candidate although the second, which it did not
\* examine, has strictly higher confidence
C2_LaterCandidateBetter ==
    /\ pc = "done"
    /\ Len(fn_in.pool) = 2
    /\ Qualifies(fn_in.new, fn_in.pool[1])
    /\ Qualifies(fn_in.new, fn_in.pool[2])
    /\ RLt(Confidence(fn_in.new, fn_in.pool[1]), Confidence(fn_in.new, fn_in.pool[2]))
    /\ fn_out.is_relist
    /\ fn_out.original = fn_in.pool[1]
    /\ fn_out.examined = 1

-----------------------------------------------------------------------------
(* Claims about process_properties, under Spec *)

\* old is an earlier listing of the unit of new: different id and url, same
\* normalized address, coordinates within 50 m, matching area, rooms, floor
\* and neighbourhood, and a USD price 12% above that of new
EarlierAtHigherPrice(new, old) ==
    /\ ~Skipped(new, old)
    /\ AddressScore(new, old) = W_ADDRESS
    /\ GeoScore(new, old) = W_GEO
    /\ FeaturesMatch(new, old) = 4
    /\ IsNum(Get(new, "precio_usd_mep")) /\ IsNum(Get(old, "precio_usd_mep"))
    /\ RMul(old["precio_usd_mep"].num, RInt(100)) = RMul(new["precio_usd_mep"].num, RInt(112))

\* the run has returned, and the pool's first acceptable candidate for record i
\* is entry j, an earlier listing of the same unit priced 12% higher
C3_Case(i, j) ==
    /\ pc = "returned"
    /\ Truthy(historical)
    /\ i \in DOMAIN normalized
    /\ j \in DOMAIN historical.list
    /\ EarlierAtHigherPrice(normalized[i], historical.list[j])
    /\ \A m \in 1..(j - 1) : ~Qualifies(normalized[i], historical.list[m])

\* the status, link and score of record i, of which entry j is the earlier listing
C3_Relisted(i, j) ==
    /\ scored[i]["status"] = Str(<<"r","e","l","i","s","t","e","d">>)
    /\ scored[i]["original_id"] = historical.list[j]["id"]
    /\ RelistingPoints(scored[i]) = 10
    /\ \E r \in calculate_opportunity_score(
                    Put(with_microzones[i], "status", Str(<<"a","c","t","i","v","e">>)), now) :
          scored[i]["opportunity_score"].num.n
              = Min(100, r.val["opportunity_score"].num.n + 10)
    /\ \E k \in DOMAIN scored[i]["opportunity_reasons"].list :
          scored[i]["opportunity_reasons"].list[k].kind = "relisting"

\* C3 (as amended): a record whose earlier listing in the pool is priced 12%
\* higher comes out with status relisted, original_id the earlier record's id,
\* price_delta_pct = (new - old) / old * 100 = -75/7, about -10.7, and a score
\* that includes the 10-point relisting contribution.
C3_RelistedAtDeltaOfOld ==
    \A i \in DOMAIN normalized :
        \A j \in IF Truthy(historical) THEN DOMAIN historical.list ELSE {} :
            C3_Case(i, j) =>
                /\ C3_Relisted(i, j)
                /\ scored[i]["price_delta_pct"] = Num(Rat(-75, 7))

\* C3 (as written): the same record comes out with price_delta_pct equal to
\* -12 within rounding.
C3_RelistedAtMinusTwelve ==
    \A i \in DOMAIN normalized :
        \A j \in IF Truthy(historical) THEN DOMAIN historical.list ELSE {} :
            C3_Case(i, j) =>
                /\ C3_Relisted(i, j)
                /\ IsNum(scored[i]["price_delta_pct"])
                /\ RLe(RAbs(RAdd(scored[i]["price_delta_pct"].num, RInt(12))), Rat(1, 2))

\* a run returned a record whose earlier listing, 12% dearer, was in the pool
C3_RelistingReturned ==
    \E i \in DOMAIN normalized :
        \E j \in IF Truthy(historical) THEN DOMAIN historical.list ELSE {} :
            C3_Case(i, j) /\ scored[i]["status"] = Str(<<"r","e","l","i","s","t","e","d">>)

\* C4: whatever fields of a record are absent or null, no stage raises, and
\* process_properties returns a scored record for every input record.
C4_NoStageRaises ==
    /\ pc # "raised"
    /\ pc = "returned" => Len(scored) = Len(properties)

\* a run on a single record whose neighbourhood is null ended in an exception
C4_RaisedOnNullField ==
    /\ pc = "raised"
    /\ Len(properties) = 1
    /\ "barrio" \in DOMAIN properties[1]
    /\ IsNone(properties[1]["barrio"])

\* C8: two executions on the same batch, pool, rate and clock return the same
\* records, field for field.
C8_SameOutputTwice ==
    (execution = 2 /\ pc = "returned") => scored = first_scored

\* the second execution returned records that differ from those of the first
C8_OutputsDiffer ==
    /\ execution = 2
    /\ pc = "returned"
    /\ scored # first_scored

\* every field of prev outside except is in next with the same value
Carried(prev, next, except) ==
    \A k \in DOMAIN prev \ except : k \in DOMAIN next /\ next[k] = prev[k]

\* the output of each stage that has run holds every field of the stage's
\* input unchanged (status, a field of the raw record, is the one
\* detect_relistings assigns)
C9_FieldsCarried ==
    /\ pc \in {"relisted", "microzones", "returned"} =>
          /\ Len(relisted) = Len(normalized)
          /\ \A i \in DOMAIN normalized : Carried(normalized[i], relisted[i], {"status"})
    /\ pc \in {"microzones", "returned"} =>
          /\ Len(with_microzones) = Len(relisted)
          /\ \A i \in DOMAIN relisted : Carried(relisted[i], with_microzones[i], {})
    /\ pc = "returned" =>
          /\ Len(scored) = Len(with_microzones)
          /\ \A i \in DOMAIN with_microzones : Carried(with_microzones[i], scored[i], {})

\* a step within an execution leaves the lists the earlier steps hold as they are
C9_InputsKept ==
    /\ properties' = properties
    /\ pc \in {"normalized", "relisted", "microzones"} => normalized' = normalized
    /\ pc \in {"relisted", "microzones"} => relisted' = relisted
    /\ pc = "microzones" => with_microzones' = with_microzones

\* C9: each stage leaves its input list and records unchanged, and every
\* field an earlier stage set is in the output of every later stage with the
\* same value.
C9_StagesCopy == [](C9_FieldsCarried) /\ [][C9_InputsKept]_vars

\* a run went through the four stages and marked a record as relisted
C9_AllStagesRan ==
    /\ pc = "returned"
    /\ Truthy(historical)
    /\ \E i \in DOMAIN scored : scored[i]["status"] = Str(<<"r","e","l","i","s","t","e","d">>)

-----------------------------------------------------------------------------
(* Claims about calculate_opportunity_score, under SpecScorer *)

\* C5: opportunity_score is an integer in the closed range [0, 100].
C5_ScoreInRange ==
    (pc = "done" /\ fn_out.ok) =>
        /\ IsNum(fn_out.val["opportunity_score"])
        /\ fn_out.val["opportunity_score"].num.d = 1
        /\ fn_out.val["opportunity_score"].num.n \in 0..100

\* a call returned the score 100
C5_ScoreAtLimit ==
    /\ pc = "done"
    /\ fn_out.ok
    /\ fn_out.val["opportunity_score"] = NumI(100)

\* the listing scored is not relisted, is priced at least 30% under its
\* neighbourhood's reference, has a z-score under -1.5, has been on line more
\* than 90 days, and its text holds the keyword k and no other
C6_Case(k) ==
    /\ pc = "done"
    /\ fn_out.ok
    /\ Get(fn_in, "status") # Str(<<"r","e","l","i","s","t","e","d">>)
    /\ RLe(RDiv(fn_in["precio_usd_mep"].num, fn_in["m2_total"].num),
           RMul(Rat(7, 10), RInt(MarketPrice(Lower(fn_in["barrio"].str)))))
    /\ RLt(RZero, fn_in["precio_usd_mep"].num)
    /\ RootLt(fn_in["zscore"], Rat(-15, 10))
    /\ now - DigitsToInt(fn_in["first_seen"].str) > 90
    /\ FoundKeywords(KeywordText(fn_in)) = {k}

\* C6: such a listing, with one primary keyword found, scores
\* min(100, 50 + 15 + w + 10), w being the keyword's weight in the table.
C6_ScoreOfFourSignals ==
    \A k \in Range(URGENCY_KEYWORDS) :
        C6_Case(k) =>
            fn_out.val["opportunity_score"]
                = NumI(Min(100, 50 + 15 + WeightOr(k, WeightOr(<<"d","e","f","a","u","l","t">>, 5)) + 10))

\* such a listing was scored, its keyword being one the table gives 4 points
C6_CaseScored ==
    /\ C6_Case(<<"r","e","t","a","s","a","d","o">>)
    /\ fn_out.val["opportunity_score"] = NumI(79)

\* the place of a kind of reason in the order of the contributions
ReasonRank(kind) ==
    CASE kind = "price" -> 1
      [] kind = "zscore" -> 2
      [] kind = "keywords" -> 3
      [] kind = "age" -> 4
      [] kind = "relisting" -> 5

\* C7: opportunity_reasons is in contribution order (market discount, zscore,
\* keywords, listing age, relisting) and holds each kind at most once.
C7_ReasonsInOrder ==
    (pc = "done" /\ fn_out.ok) =>
        \A i, j \in DOMAIN fn_out.val["opportunity_reasons"].list :
            i < j => ReasonRank(fn_out.val["opportunity_reasons"].list[i].kind)
                         < ReasonRank(fn_out.val["opportunity_reasons"].list[j].kind)

\* a call returned all five kinds of reason
C7_AllReasons ==
    /\ pc = "done"
    /\ fn_out.ok
    /\ Len(fn_out.val["opportunity_reasons"].list) = 5

-----------------------------------------------------------------------------
(* Claims about normalize_property, under SpecNormalizer *)

\* C10: normalizing a normalized record again, at the same rate, returns a
\* record equal to it field for field.
C10_Idempotent ==
    pc = "twice" => fn_out[2] = fn_out[1]

\* a record priced in pesos, with its area given as text, was normalized twice
C10_TextRecordTwice ==
    /\ pc = "twice"
    /\ fn_out[2].ok
    /\ Get(fn_in.data, "moneda") = Str(<<"A","R","S">>)
    /\ IsStr(Get(fn_in.data, "m2_total"))
    /\ IsNum(Get(fn_in.data, "precio_original"))
    /\ fn_out[2].val["precio_usd_mep"] # fn_in.data["precio_original"]
    /\ IsNum(fn_out[2].val["m2_total"])

-----------------------------------------------------------------------------
(* Claims about the price in USD, under SpecNormalizer *)

\* normalize_property has returned for a record that has precio_original, a
\* number, and moneda
C11_Converted ==
    /\ pc = "once"
    /\ fn_out[1].ok
    /\ "precio_original" \in DOMAIN fn_in.data
    /\ "moneda" \in DOMAIN fn_in.data
    /\ IsNum(fn_in.data["precio_original"])

\* C11: normalize_price_to_usd returns the price when the currency is USD,
\* price / rate when the currency is ARS and the rate is positive, and 0 in
\* every other case (a rate <= 0, or a currency that is neither USD nor ARS).
C11_PriceInUsd ==
    C11_Converted =>
        fn_out[1].val["precio_usd_mep"]
            = IF fn_in.data["moneda"] = Str(<<"U","S","D">>)
              THEN fn_in.data["precio_original"]
              ELSE IF fn_in.data["moneda"] = Str(<<"A","R","S">>) /\ RLt(RZero, fn_in.mep)
                   THEN Num(RDiv(fn_in.data["precio_original"].num, fn_in.mep))
                   ELSE Num(RZero)

\* a price in a currency that is neither USD nor ARS was converted, and the
\* result is not 0
C11_OtherCurrencyKept ==
    /\ C11_Converted
    /\ fn_in.data["moneda"] \notin {Str(<<"U","S","D">>), Str(<<"A","R","S">>), None}
    /\ fn_out[1].val["precio_usd_mep"] # Num(RZero)

\* the record has no usable price: precio_original or moneda is absent or
\* null, the price is not a number, or the currency is neither USD nor ARS
NoUsablePrice(data) ==
    \/ ~IsNum(Get(data, "precio_original"))
    \/ Get(data, "moneda") \notin {Str(<<"U","S","D">>), Str(<<"A","R","S">>)}

\* C12: after normalize_property, precio_usd_mep is a number >= 0, and it is 0
\* whenever precio_original or moneda is missing or unusable.
C12_PriceNeverNegative ==
    (pc = "once" /\ fn_out[1].ok) =>
        /\ IsNum(fn_out[1].val["precio_usd_mep"])
        /\ RLe(RZero, fn_out[1].val["precio_usd_mep"].num)
        /\ NoUsablePrice(fn_in.data) => fn_out[1].val["precio_usd_mep"] = Num(RZero)

\* normalize_property returned a negative precio_usd_mep
C12_NegativePrice ==
    /\ pc = "once"
    /\ fn_out[1].ok
    /\ IsNum(fn_out[1].val["precio_usd_mep"])
    /\ RLt(fn_out[1].val["precio_usd_mep"].num, RZero)

-----------------------------------------------------------------------------
(* Claims about calculate_all_microzones, under SpecMicrozones *)

\* the standard deviation of the prices of the comparison set of listing i
StdOfSet(props, i) ==
    calculate_microzone_stats(ComparisonSet(props[i], props, MICROZONE_RADIUS_METERS)).std

\* C13: after calculate_all_microzones, every listing whose comparison-set
\* standard deviation is 0 has zscore = 0 and zscore_m2 = 0.
C13_NoDeviationNoZScore ==
    (pc = "done" /\ fn_out.ok) =>
        \A i \in DOMAIN fn_in :
            StdOfSet(fn_in, i).root.sgn = 0 =>
                /\ fn_out.val[i]["microzone_std"] = RootZero
                /\ Get(fn_out.val[i], "zscore") = RootZero
                /\ Get(fn_out.val[i], "zscore_m2") = RootZero

\* a listing with a positive price, whose comparison set holds several
\* listings at one price, came out with both z-scores 0
C13_SamePriceSet ==
    /\ pc = "done"
    /\ fn_out.ok
    /\ \E i \in DOMAIN fn_in :
          /\ PyGtZero(fn_in[i]["precio_usd_mep"])
          /\ fn_out.val[i]["microzone_count"].num.n >= 2
          /\ fn_out.val[i]["microzone_std"] = RootZero
          /\ fn_out.val[i]["zscore"] = RootZero
          /\ fn_out.val[i]["zscore_m2"] = RootZero

\* C14: after calculate_all_microzones, zscore_m2 is 0 for every listing whose
\* m2_total is 0 or missing, its price per m2 being 0, also when its price and
\* the standard deviation of its comparison set are positive.
C14_NoAreaNoZScore ==
    (pc = "done" /\ fn_out.ok) =>
        \A i \in DOMAIN fn_in :
            ~Truthy(Get(fn_in[i], "m2_total")) => fn_out.val[i]["zscore_m2"] = RootZero

\* a listing with a positive price and no area, in a comparison set of
\* positive standard deviation, came out with a zscore_m2 other than 0
C14_NoAreaScored ==
    /\ pc = "done"
    /\ fn_out.ok
    /\ \E i \in DOMAIN fn_in :
          /\ ~Truthy(Get(fn_in[i], "m2_total"))
          /\ fn_in[i]["precio_m2"] = Num(RZero)
          /\ PyGtZero(fn_in[i]["precio_usd_mep"])
          /\ fn_out.val[i]["microzone_std"].root.sgn > 0
          /\ fn_out.val[i]["zscore_m2"] # RootZero

\* listing i of the batch has coordinates
HasCoordinates(props, i) ==
    ~IsNone(Get(props[i], "lat")) /\ ~IsNone(Get(props[i], "lng"))

\* the positions of the listings the comparison set of listing i is to hold
ExpectedSet(props, i) ==
    IF HasCoordinates(props, i)
    THEN {j \in DOMAIN props :
             /\ HasCoordinates(props, j)
             /\ RLe(haversine_distance_sq(props[i]["lat"].num, props[i]["lng"].num,
                                          props[j]["lat"].num, props[j]["lng"].num),
                    RInt(MICROZONE_RADIUS_METERS * MICROZONE_RADIUS_METERS))}
    ELSE {j \in DOMAIN props : Get(props[j], "barrio") = Get(props[i], "barrio")}

\* C15: the comparison set of a listing with coordinates is the batch listings
\* with coordinates at a distance <= radius_meters of it, itself included, and
\* that of a listing without coordinates is the batch listings whose barrio
\* string equals its own; the statistics written on the listing are those of
\* that set.
C15_ComparisonSet ==
    (pc = "done" /\ fn_out.ok) =>
        \A i \in DOMAIN fn_in :
            /\ i \in ExpectedSet(fn_in, i)
            /\ ComparisonSet(fn_in[i], fn_in, MICROZONE_RADIUS_METERS)
                   = SelectIdx(fn_in, ExpectedSet(fn_in, i))
            /\ fn_out.val[i]["microzone_count"]
                   = NumI(Cardinality({j \in ExpectedSet(fn_in, i) :
                                          PyGtZero(fn_in[j]["precio_usd_mep"])}))
            /\ fn_out.val[i]["microzone_mean"]
                   = Num(calculate_microzone_stats(
                             SelectIdx(fn_in, ExpectedSet(fn_in, i))).mean)

\* a batch held a listing with one neighbour at exactly 400 m, which its
\* statistics count, and a listing without coordinates, whose statistics
\* count the listing of the same barrio and not the one of another
C15_EdgeAndFallback ==
    /\ pc = "done"
    /\ fn_out.ok
    /\ fn_in = <<ZoneCentre, ZoneEdge, ZoneNoCoords>>
    /\ fn_out.val[1]["microzone_count"] = NumI(2)
    /\ fn_out.val[3]["microzone_count"] = NumI(2)
    /\ fn_out.val[3]["microzone_mean"] = Num(RInt(2750))

-----------------------------------------------------------------------------
(* Claims about detect_relistings, under SpecDetect *)

\* C16: after detect_relistings, every record with status relisted has a
\* non-null original_id, the id of a listing of the pool, and its
\* price_delta_pct is a number or null.
C16_RelistedIsLinked ==
    pc = "done" =>
        /\ Len(fn_out) = Len(fn_in.props)
        /\ \A i \in DOMAIN fn_out :
              fn_out[i]["status"] = Str(<<"r","e","l","i","s","t","e","d">>) =>
                  /\ ~IsNone(fn_out[i]["original_id"])
                  /\ \E j \in DOMAIN fn_in.pool :
                        Get(fn_in.pool[j], "id") = fn_out[i]["original_id"]
                  /\ IsNone(fn_out[i]["price_delta_pct"]) \/ IsNum(fn_out[i]["price_delta_pct"])

\* a batch came out with one record relisted at a negative price change and
\* another relisted with no price change known
C16_RelistedWithAndWithoutDelta ==
    /\ pc = "done"
    /\ \E i, j \in DOMAIN fn_out :
          /\ fn_out[i]["status"] = Str(<<"r","e","l","i","s","t","e","d">>)
          /\ IsNum(fn_out[i]["price_delta_pct"])
          /\ RLt(fn_out[i]["price_delta_pct"].num, RZero)
          /\ fn_out[j]["status"] = Str(<<"r","e","l","i","s","t","e","d">>)
          /\ IsNone(fn_out[j]["price_delta_pct"])
          /\ ~IsNone(fn_out[j]["original_id"])

-----------------------------------------------------------------------------
(* Claims about the relisting fields of process_properties, under Spec *)

\* no candidate of the pool reaches confidence 0.6 for the normalized record
\* new: the pool is absent or empty, or each candidate is skipped or below 0.6
NoCandidate(new) ==
    \/ ~Truthy(historical)
    \/ \A j \in DOMAIN historical.list :
          \/ Skipped(new, historical.list[j])
          \/ RLt(Confidence(new, historical.list[j]), Rat(6, 10))

\* C17: every record of a run for which no historical candidate reaches
\* confidence 0.6, the pool being empty or absent included, comes out of
\* process_properties with status active and with original_id and
\* price_delta_pct null (None, or never set when there is no pool).
C17_UnmatchedIsActive ==
    pc = "returned" =>
        \A i \in DOMAIN scored :
            NoCandidate(normalized[i]) =>
                /\ Get(scored[i], "status") = Str(<<"a","c","t","i","v","e">>)
                /\ IsNone(Get(scored[i], "original_id"))
                /\ IsNone(Get(scored[i], "price_delta_pct"))

\* a run with a pool returned one record relisted and another, for which no
\* candidate reached 0.6 although the pool held candidates, active with null links
C17_ActiveBesideRelisted ==
    /\ pc = "returned"
    /\ Truthy(historical)
    /\ \E i, j \in DOMAIN scored :
          /\ scored[i]["status"] = Str(<<"r","e","l","i","s","t","e","d">>)
          /\ NoCandidate(normalized[j])
          /\ \E k \in DOMAIN historical.list : ~Skipped(normalized[j], historical.list[k])
          /\ scored[j]["status"] = Str(<<"a","c","t","i","v","e">>)
          /\ "original_id" \in DOMAIN scored[j]
          /\ IsNone(scored[j]["original_id"])

-----------------------------------------------------------------------------
(* Claims about the price delta of is_relisting, under SpecRelisting *)

\* the price of listing r is a number > 0
PositivePrice(r) ==
    IsNum(Get(r, "precio_usd_mep")) /\ RLt(RZero, r["precio_usd_mep"].num)

\* C18: when is_relisting accepts a candidate, the price delta it returns is
\* (new price - old price) / old price * 100 if both prices are > 0, and null
\* otherwise: a zero, negative or missing price on either side yields null.
C18_DeltaOfPositivePrices ==
    (pc = "done" /\ fn_out.is_relist) =>
        fn_out.delta_pct
            = IF PositivePrice(fn_in.new) /\ PositivePrice(fn_out.original)
              THEN Num(RMul(RDiv(RSub(fn_in.new["precio_usd_mep"].num,
                                      fn_out.original["precio_usd_mep"].num),
                                 fn_out.original["precio_usd_mep"].num),
                            RInt(100)))
              ELSE None

\* a candidate was accepted for a new listing with a negative price, and the
\* delta returned is a number
C18_DeltaOfNegativePrice ==
    /\ pc = "done"
    /\ fn_out.is_relist
    /\ IsNum(Get(fn_in.new, "precio_usd_mep"))
    /\ RLt(fn_in.new["precio_usd_mep"].num, RZero)
    /\ PositivePrice(fn_out.original)
    /\ IsNum(fn_out.delta_pct)

-----------------------------------------------------------------------------
(* Claims about send_opportunities_batch, under SpecAlerts *)

\* how many entries of the sequence s satisfy Keep
CountOf(s, Keep(_)) == Cardinality({i \in DOMAIN s : Keep(s[i])})

\* the threshold of the call: min_score, or the default when it is None
AlertThreshold ==
    IF IsNone(fn_in.min_score) THEN RInt(OPPORTUNITY_SCORE_THRESHOLD) ELSE fn_in.min_score.num

\* C19: send_opportunities_batch attempts exactly one alert for each record
\* with status active and opportunity_score >= threshold and for no other
\* record, and issues the alerts in non-increasing order of opportunity_score.
C19_AlertsOfActiveOpportunities ==
    pc = "done" =>
        /\ \A r \in AlertListings :
              LET IsR(x) == x = r
                  AlertsR(a) == a.prop = r
              IN  CountOf(fn_out, AlertsR)
                      = IF /\ Get(r, "status") = Str(<<"a","c","t","i","v","e">>)
                           /\ RLe(AlertThreshold, GetOr(r, "opportunity_score", NumI(0)).num)
                        THEN CountOf(fn_in.records, IsR)
                        ELSE 0
        /\ \A i, j \in DOMAIN fn_out :
              i < j => RLe(fn_out[j].prop["opportunity_score"].num,
                           fn_out[i].prop["opportunity_score"].num)

\* a batch given in rising order of score, with a relisted record above the
\* threshold and an active one below it, was alerted in falling order
C19_AlertsSent ==
    /\ pc = "done"
    /\ Len(fn_in.records) = 3
    /\ Len(fn_out) = 2
    /\ fn_out[1].prop = fn_in.records[3]
    /\ fn_out[2].prop = fn_in.records[2]
    /\ RLt(fn_out[2].prop["opportunity_score"].num, fn_out[1].prop["opportunity_score"].num)
    /\ RLt(AlertThreshold, GetOr(fn_in.records[1], "opportunity_score", NumI(0)).num)
    /\ fn_in.records[1]["status"] = Str(<<"r","e","l","i","s","t","e","d">>)


\* the rows of the properties sheet, under the header
RowsOf(sheets) ==
    IF SHEET_PROPIEDADES \in DOMAIN sheets THEN sheets[SHEET_PROPIEDADES].rows ELSE <<>>

\* the row that holds record p: its value under each header, '' where it has none
RowOf(p) ==
    Tuple([c \in DOMAIN get_headers |->
              IF get_headers[c] \in DOMAIN p THEN p[get_headers[c]] ELSE Str(<<>>)])

\* the ids in column A of the rows
StoredIds(rows) == {rows[i][1] : i \in DOMAIN rows}

\* the last record of the batch that has the id of batch[k]
LastWithId(batch, k) ==
    batch[CHOOSE m \in DOMAIN batch :
            /\ Get(batch[m], "id") = Get(batch[k], "id")
            /\ \A j \in DOMAIN batch : Get(batch[j], "id") = Get(batch[k], "id") => j <= m]

\* what a call with the batch made of the rows old: rows of other ids are as
\* they were, a stored id of the batch has a row in its old place that holds
\* the (last) batch record of that id, and the rows added at the end are the
\* batch records of ids not stored, one each, in batch order
UpsertEffect(old, batch, new) ==
    /\ Len(new) = Len(old)
                    + Cardinality({k \in DOMAIN batch : Get(batch[k], "id") \notin StoredIds(old)})
    /\ \A i \in DOMAIN old :
          old[i][1] \notin {Get(batch[k], "id") : k \in DOMAIN batch} => new[i] = old[i]
    /\ \A k \in DOMAIN batch :
          Get(batch[k], "id") \in StoredIds(old) =>
              \E i \in DOMAIN old :
                  /\ old[i][1] = Get(batch[k], "id")
                  /\ new[i] = RowOf(LastWithId(batch, k))
    /\ SubSeq(new, Len(old) + 1, Len(new))
          = SelectIdx([k \in DOMAIN batch |-> RowOf(batch[k])],
                      {k \in DOMAIN batch : Get(batch[k], "id") \notin StoredIds(old)})

\* C20: upsert_properties(batch) replaces in place the stored row of every
\* batch record whose id is already in the properties sheet, appends one new
\* row for every batch record whose id is not in the sheet, and leaves the
\* rows of ids not in the batch unchanged.
C20_UpsertInPlace ==
    [][(pc = "call" /\ pc' = "done") =>
          UpsertEffect(RowsOf(spreadsheet), fn_in.properties, RowsOf(spreadsheet'))]_vars

\* a sheet that held u1 and u2 was given a new version of u1 and the new u3:
\* u1's row holds the new version, u2's row is as it was, u3 is the third row
C20_UpdatedAndAppended ==
    /\ pc = "done"
    /\ fn_in.stored = <<Alertable(<<"u","1">>, NumI(20), <<"a","c","t","i","v","e">>),
                        Alertable(<<"u","2">>, NumI(45), <<"r","e","l","i","s","t","e","d">>)>>
    /\ fn_in.properties = <<Alertable(<<"u","1">>, NumI(80), <<"a","c","t","i","v","e">>),
                            Alertable(<<"u","3">>, NumI(45), <<"a","c","t","i","v","e">>)>>
    /\ RowsOf(spreadsheet) = <<RowOf(Alertable(<<"u","1">>, NumI(80), <<"a","c","t","i","v","e">>)),
                               RowOf(Alertable(<<"u","2">>, NumI(45), <<"r","e","l","i","s","t","e","d">>)),
                               RowOf(Alertable(<<"u","3">>, NumI(45), <<"a","c","t","i","v","e">>))>>
-----------------------------------------------------------------------------
(* Claims about normalize_rooms, under SpecRooms *)

\* the positions of text t where a numeral is followed by a room word
NumeralHits(t) == {i \in DOMAIN t : RoomsMatchAt(t, i)}

\* the spelled-out numerals found in text t, as indices of text_to_num
SpelledHits(t) == {k \in DOMAIN text_to_num : Contains(t, text_to_num[k][1])}

\* the room count by the priority numeral, then mono, then spelled-out numeral
RoomsByPriority(t) ==
    IF NumeralHits(t) # {}
    THEN DigitsToInt(SubSeq(t, First(NumeralHits(t)),
                            RunEnd(t, First(NumeralHits(t)), DigitChars)))
    ELSE IF Contains(t, <<"m","o","n","o">>) THEN 1
    ELSE IF SpelledHits(t) # {} THEN text_to_num[First(SpelledHits(t))][2]
    ELSE 0

\* C22: normalize_rooms returns the explicit numeral adjacent to a room word
\* whenever the text contains one, in preference to the 'mono' cue and to
\* spelled-out numerals; 'mono' yields 1 and a spelled-out numeral 1-7 yields
\* its value only when no such numeral is present; no match yields 0.
C22_NumeralFirst ==
    pc = "done" => fn_out[1] = RoomsByPriority(Strip(Lower(fn_in)))

\* a text with both a numeral beside a room word and the 'mono' cue was given
\* 1 room, which is not its numeral
C22_MonoOverNumeral ==
    /\ pc = "done"
    /\ NumeralHits(Strip(Lower(fn_in))) # {}
    /\ Contains(Lower(fn_in), <<"m","o","n","o">>)
    /\ fn_out[1] = 1
    /\ RoomsByPriority(Strip(Lower(fn_in))) = 3

-----------------------------------------------------------------------------
(* Claims about the candidates is_relisting skips, under SpecRelisting *)

\* C23: is_relisting never returns a historical candidate that has the same
\* id as the new listing, nor one that has both the same source and the same
\* url, whatever confidence that candidate would reach.
C23_SameListingNeverReturned ==
    (pc = "done" /\ fn_out.is_relist) =>
        /\ Get(fn_out.original, "id") # Get(fn_in.new, "id")
        /\ ~(/\ Get(fn_out.original, "source") = Get(fn_in.new, "source")
             /\ Get(fn_out.original, "url") = Get(fn_in.new, "url"))

\* the pool held the new listing under its own id and under another id with
\* the same source and url, both with full confidence, and no relisting was
\* reported
C23_SkippedAtFullConfidence ==
    /\ pc = "done"
    /\ fn_in.new = NewFull
    /\ fn_in.pool = <<OldSelf, OldSamePage>>
    /\ Confidence(NewFull, OldSelf) = RInt(1)
    /\ Confidence(NewFull, OldSamePage) = RInt(1)
    /\ ~fn_out.is_relist

-----------------------------------------------------------------------------
(* Claims about calculate_price_score, under SpecPrice *)

\* the reference price per m2 of the listing's neighbourhood: its entry in the
\* table, or the default when it has none
ReferenceOf(p) == MarketPrice(Lower(GetOr(p, "barrio", Str(<<"P","a","l","e","r","m","o">>)).str))

\* (reference - actual price per m2) / reference x 100
DiscountOf(p) ==
    RMul(RDiv(RSub(RInt(ReferenceOf(p)), RDiv(p["precio_usd_mep"].num, p["m2_total"].num)),
              RInt(ReferenceOf(p))),
         RInt(100))

\* the tier of a discount: the points it earns
TierOf(discount) ==
    IF RLe(RInt(30), discount) THEN 50
    ELSE IF RLe(RInt(20), discount) THEN 40
    ELSE IF RLe(RInt(15), discount) THEN 30
    ELSE IF RLe(RInt(10), discount) THEN 20
    ELSE IF RLe(RInt(5), discount) THEN 10
    ELSE 0

\* calculate_price_score has returned for a listing with a price and an area
C24_Case ==
    /\ pc = "done"
    /\ RLt(RZero, fn_in["precio_usd_mep"].num)
    /\ RLt(RZero, fn_in["m2_total"].num)

\* C24: calculate_price_score returns 50, 40, 30, 20, 10 or 0 according as the
\* discount is >= 30, >= 20, >= 15, >= 10, >= 5 or lower, with the default
\* reference for a neighbourhood not in the table; for each non-zero tier it
\* returns a reason naming the actual and the reference price per m2, and for
\* the zero tier no reason.
C24_TierAndReason ==
    C24_Case =>
        /\ fn_out.ok
        /\ fn_out.val.score = TierOf(DiscountOf(fn_in))
        /\ IF fn_out.val.score = 0 THEN fn_out.val.razon = None
           ELSE /\ DOMAIN fn_out.val.razon = {"kind", "tier", "precio_m2", "precio_mercado"}
                /\ fn_out.val.razon.precio_m2
                      = RDiv(fn_in["precio_usd_mep"].num, fn_in["m2_total"].num)
                /\ fn_out.val.razon.precio_mercado = ReferenceOf(fn_in)

\* a listing exactly 5% under the default reference, in a neighbourhood that is
\* not in the table, earned 10 points with a reason that names no price
C24_SlightDiscountUnnamed ==
    /\ C24_Case
    /\ fn_in = Priced(NumI(2945), NumI(1), Str(<<"B","e","l","g","r","a","n","o">>))
    /\ fn_out.val.score = 10
    /\ fn_out.val.razon = SlightReason
    /\ "precio_m2" \notin DOMAIN fn_out.val.razon

-----------------------------------------------------------------------------
(* Claims about safe_navigate, under SpecNavigate *)

\* the navigation attempts in the log
Attempts(log) == SelectIdx(log, {i \in DOMAIN log : "goto" \in DOMAIN log[i]})

\* the log of n failed attempts with the wait of 5 x k seconds after the k-th
\* of them, except after the n-th
RECURSIVE FailedAttempts(_, _)
FailedAttempts(url, n) ==
    IF n = 0 THEN <<>>
    ELSE IF n = 1 THEN <<[goto |-> url, loaded |-> FALSE]>>
    ELSE FailedAttempts(url, n - 1)
             \o <<[sleep |-> 5 * (n - 1)], [goto |-> url, loaded |-> FALSE]>>

\* the log of a call whose n-th attempt succeeded, without the random delay
SucceededAt(url, n) ==
    IF n = 1 THEN <<[goto |-> url, loaded |-> TRUE]>>
    ELSE FailedAttempts(url, n - 1)
             \o <<[sleep |-> 5 * (n - 1)], [goto |-> url, loaded |-> TRUE]>>

\* what a call that has returned did: True after a first success that no
\* attempt follows, False after retries failed attempts, with the waits
\* between consecutive attempts only
NavigatedAsSaid ==
    pc = "done" =>
        \/ /\ fn_out.returned = Bool(TRUE)
           /\ \E n \in 1..Retries(fn_in) :
                 SubSeq(fn_out.log, 1, Len(fn_out.log) - 1) = SucceededAt(fn_in.url, n)
           /\ "random_delay" \in DOMAIN fn_out.log[Len(fn_out.log)]
        \/ /\ fn_out.returned = Bool(FALSE)
           /\ fn_out.log = FailedAttempts(fn_in.url, Retries(fn_in))

-----------------------------------------------------------------------------
(* Claims about the rows of the properties sheet, under SpecSheet *)

\* C27: after any sequence of upsert_properties calls starting from a sheet
\* with distinct ids (here: a call on the sheet that the batch stored, of
\* distinct ids, made), the properties sheet holds at most one row per id,
\* including when a single batch contains two records with the same id.
C27_OneRowPerId ==
    (/\ pc = "done"
     /\ \A i, j \in DOMAIN fn_in.stored :
           Get(fn_in.stored[i], "id") = Get(fn_in.stored[j], "id") => i = j) =>
        \A i, j \in DOMAIN RowsOf(spreadsheet) :
            RowsOf(spreadsheet)[i][1] = RowsOf(spreadsheet)[j][1] => i = j

\* a sheet that held u2 alone was given a batch with two records of the new id
\* u1, and holds a row for each of them
C27_TwoRowsOfOneId ==
    /\ pc = "done"
    /\ fn_in.stored = <<Alertable(<<"u","2">>, NumI(45), <<"r","e","l","i","s","t","e","d">>)>>
    /\ fn_in.properties = <<Alertable(<<"u","1">>, NumI(20), <<"a","c","t","i","v","e">>),
                            Alertable(<<"u","1">>, NumI(80), <<"a","c","t","i","v","e">>)>>
    /\ RowsOf(spreadsheet) = <<RowOf(Alertable(<<"u","2">>, NumI(45), <<"r","e","l","i","s","t","e","d">>)),
                               RowOf(Alertable(<<"u","1">>, NumI(20), <<"a","c","t","i","v","e">>)),
                               RowOf(Alertable(<<"u","1">>, NumI(80), <<"a","c","t","i","v","e">>))>>

-----------------------------------------------------------------------------
(* Claims about the runs of main_async, under SpecRuns *)

\* the status cell of a row
StatusOf(row) == row[IndexOf(get_headers, "status")]

\* the ids of the records of a list
IdsOf(records) == {Get(records[k], "id") : k \in DOMAIN records}

\* a run that scraped at least one listing is complete
RunComplete == pc = "exit" /\ properties # <<>>

\* C21: after a complete run of main_async that scraped at least one listing,
\* every id stored in the properties sheet that is absent from the current
\* batch has status 'delisted', and every id of the current batch is stored
\* with the status the pipeline assigned to it in this run.
C21_AbsentDelistedBatchStored ==
    RunComplete =>
        /\ \A i \in DOMAIN RowsOf(spreadsheet) :
              RowsOf(spreadsheet)[i][1] \notin IdsOf(scored) =>
                  StatusOf(RowsOf(spreadsheet)[i]) = Str(<<"d","e","l","i","s","t","e","d">>)
        /\ \A k \in DOMAIN scored :
              \E i \in DOMAIN RowsOf(spreadsheet) :
                  /\ RowsOf(spreadsheet)[i][1] = scored[k]["id"]
                  /\ StatusOf(RowsOf(spreadsheet)[i]) = scored[k]["status"]

\* the second run found unit X's listing h1 gone and the other unit still on
\* line: the sheet holds h1 as delisted and h2 as active
C21_GoneListingMarked ==
    /\ RunComplete
    /\ execution = 2
    /\ IdsOf(first_scored) = {Str(<<"h","1">>), Str(<<"h","2">>)}
    /\ IdsOf(scored) = {Str(<<"h","2">>)}
    /\ Len(RowsOf(spreadsheet)) = 2
    /\ RowsOf(spreadsheet)[1][1] = Str(<<"h","1">>)
    /\ StatusOf(RowsOf(spreadsheet)[1]) = Str(<<"d","e","l","i","s","t","e","d">>)
    /\ RowsOf(spreadsheet)[2][1] = Str(<<"h","2">>)
    /\ StatusOf(RowsOf(spreadsheet)[2]) = Str(<<"a","c","t","i","v","e">>)

\* the rows of the history sheet, under the header
HistoryOf(sheets) ==
    IF SHEET_HISTORIAL \in DOMAIN sheets THEN sheets[SHEET_HISTORIAL].rows ELSE <<>>

\* the ids and the status cells of rows, in order
IdAndStatus(rows) == Tuple([i \in DOMAIN rows |-> <<rows[i][1].str, StatusOf(rows[i]).str>>])

\* C25: after a run marks a stored listing X delisted, get_historical_properties
\* at the start of the next run returns X, so that a new listing of the same
\* unit that first appears in that next run is compared against X: when a
\* run has fetched its pool, every listing stored as delisted is in it.
C25_DelistedIsInNextPool ==
    pc = "scrape" =>
        \A i \in DOMAIN RowsOf(spreadsheet) :
            StatusOf(RowsOf(spreadsheet)[i]) = Str(<<"d","e","l","i","s","t","e","d">>) =>
                RowsOf(spreadsheet)[i][1] \in IdsOf(historical.list)

\* run 2 marked h1, the listing of unit X, delisted; run 3 got an empty pool
\* (the history row run 2 wrote for h1 says active) and gave the new listing n2
\* of unit X the status active
C25_RelistingMissed ==
    /\ RunComplete
    /\ execution = 3
    /\ IdAndStatus(HistoryOf(spreadsheet)) = << <<<<"h","1">>, <<"a","c","t","i","v","e">>>>, <<<<"h","1">>, <<"d","e","l","i","s","t","e","d">>>> >>
    /\ historical = List(<<>>)
    /\ \E k \in DOMAIN scored :
          /\ scored[k]["id"] = Str(<<"n","2">>)
          /\ scored[k]["status"] = Str(<<"a","c","t","i","v","e">>)
    /\ \E i \in DOMAIN RowsOf(spreadsheet) :
          /\ RowsOf(spreadsheet)[i][1] = Str(<<"h","1">>)
          /\ StatusOf(RowsOf(spreadsheet)[i]) = Str(<<"d","e","l","i","s","t","e","d">>)

\* the first_seen cell of a row
FirstSeenOf(row) == row[IndexOf(get_headers, "first_seen")]

\* C26: across successive runs, the first_seen value stored for an id never
\* changes after that id is first inserted (only last_seen advances), so the
\* days_online computed for a listing present since an earlier run reflects
\* the time since its first appearance.
C26_FirstSeenNeverChanges ==
    [][\A i \in DOMAIN RowsOf(spreadsheet) :
          \A j \in DOMAIN RowsOf(spreadsheet') :
              RowsOf(spreadsheet)[i][1] = RowsOf(spreadsheet')[j][1] =>
                  FirstSeenOf(RowsOf(spreadsheet)[i]) = FirstSeenOf(RowsOf(spreadsheet')[j])]_vars

\* h2 was scraped on day 200 and again on day 201: after the second run its
\* row says first_seen 201, and its days_online is 0
C26_FirstSeenOverwritten ==
    /\ RunComplete
    /\ execution = 2
    /\ \E k \in DOMAIN first_scored :
          /\ first_scored[k]["id"] = Str(<<"h","2">>)
          /\ first_scored[k]["first_seen"] = Str(<<"2","0","0">>)
    /\ \E i \in DOMAIN RowsOf(spreadsheet) :
          /\ RowsOf(spreadsheet)[i][1] = Str(<<"h","2">>)
          /\ FirstSeenOf(RowsOf(spreadsheet)[i]) = Str(<<"2","0","1">>)
    /\ \E k \in DOMAIN scored :
          /\ scored[k]["id"] = Str(<<"h","2">>)
          /\ scored[k]["days_online"] = NumI(0)

\* C28: every historical record that a run passes to the relisting detector
\* is a normalized listing carrying the fields the detector reads, in
\* particular a non-empty direccion_normalizada whenever the listing had an
\* address, so that the address evidence can earn credit.
C28_PoolIsNormalized ==
    (pc = "relisted" /\ Truthy(historical)) =>
        \A k \in DOMAIN historical.list :
            /\ "direccion_normalizada" \in DOMAIN historical.list[k]
            /\ Truthy(Get(historical.list[k], "direccion")) =>
                  Truthy(historical.list[k]["direccion_normalizada"])

\* the detector ran against a pool that holds h1, which has an address and no
\* direccion_normalizada
C28_PoolWithoutNormalizedAddress ==
    /\ pc = "relisted"
    /\ Truthy(historical)
    /\ historical.list[1]["id"] = Str(<<"h","1">>)
    /\ Truthy(historical.list[1]["direccion"])
    /\ "direccion_normalizada" \notin DOMAIN historical.list[1]
    /\ \E k \in DOMAIN relisted : relisted[k]["id"] = Str(<<"n","2">>)

\* C29: at the start of every run, the historical pool returned by
\* get_historical_properties contains only now-absent listings: no record in
\* it has an id that is currently stored as active (or relisted) in the
\* properties sheet, and it holds at most one record per id, even after a
\* delisted listing has reappeared with the same id or has stayed absent over
\* several runs.
C29_PoolOfAbsentListings ==
    pc = "scrape" =>
        /\ \A k \in DOMAIN historical.list :
              \A i \in DOMAIN RowsOf(spreadsheet) :
                  RowsOf(spreadsheet)[i][1] = historical.list[k]["id"] =>
                      StatusOf(RowsOf(spreadsheet)[i]) \notin {Str(<<"a","c","t","i","v","e">>), Str(<<"r","e","l","i","s","t","e","d">>)}
        /\ \A k, m \in DOMAIN historical.list :
              historical.list[k]["id"] = historical.list[m]["id"] => k = m

\* h1 went off line, stayed off for two runs and came back in run 4 under
\* the same id: the pool of run 5 holds h1 while the sheet stores it as active
C29_PoolHoldsActiveListing ==
    /\ pc = "scrape"
    /\ execution = 5
    /\ IdsOf(historical.list) = {Str(<<"h","1">>)}
    /\ \E i \in DOMAIN RowsOf(spreadsheet) :
          /\ RowsOf(spreadsheet)[i][1] = Str(<<"h","1">>)
          /\ StatusOf(RowsOf(spreadsheet)[i]) = Str(<<"a","c","t","i","v","e">>)

====
